---- MODULE Spec2Model ----
(***************************************************************************)
(* Certificate status handling of pvxs: the signed status codec            *)
(* (CertStatusManager::parse), the CertificateStatus value objects, the    *)
(* per-TLS-context peer status cache (CertStatusExData) and the TLS verify *)
(* hook ossl_verify, run against a CMS that publishes status values.       *)
(*                                                                         *)
(* Times are seconds since the epoch (time_t).                             *)
(***************************************************************************)
EXTENDS Integers, Sequences, FiniteSets, TLC

VARIABLES
    now,                  \* wall clock, time(nullptr)
    status_check_enabled, \* CertStatusExData::status_check_enabled
    peer_statuses,        \* CertStatusExData::peer_statuses, by serial
    cms,                  \* status the CMS holds for each serial
    mq,                   \* monitor updates queued for each subscription
    vpc,                  \* position of the TLS thread inside ossl_verify
    vcert,                \* certificate of the ossl_verify call in progress
    vget,                 \* the GET operation of the call in progress
    vghost,               \* history of the call in progress
    revoked_delivered,    \* history: serials for which a verified REVOKED update reached the callback
    corrupt_dropped,      \* history: serials whose latest update failed verification, no handshake since
    exited,               \* the process called exit(1)
    ev,                   \* what the step that led to this state did
    last_fn,              \* history: the argument of the last call of fn for each serial
    pf_in,                \* input of a pure function under test
    pf_out,               \* its result
    car,                  \* the CertStatusExData of a TLS context: alive or freed
    lock,                 \* CertStatusExData::lock, by the thread that holds it
    mgr,                  \* the CertStatusManager of a peer serial and who holds it
    cb_pc,                \* position of the client worker thread in the monitor event handler
    tls_pc,               \* position of the TLS thread in ossl_verify / subscribeToCertStatus
    certs,                \* the certs table of the CMS database, by serial
    cnow,                 \* strftime('%s', 'now') of the CMS
    last_op,              \* what the last operation on the certs table was and how it ended
    up,                   \* the CMS process is running
    pending,              \* serials whose committed status waits for postCertificateStatus
    posted,               \* the statuses posted on the status PV of each serial, in order
    commits,              \* history: the statuses committed to certs for each serial, in order
    crashes,              \* history: how often the CMS stopped
    connections,          \* ServIface::connections, the list of ServerConn objects
    nconn,                \* how many sockets the listener has handed to onConnS
    removals,             \* history: how often each connection was spliced out of the list
    asserted,             \* an assert of cleanup() failed
    dispatched,           \* what the last callback the dispatcher ran did
    sub_queue,            \* the queue of the client::Subscription of a status monitor
    sub_event,            \* the event callback of the subscription is scheduled
    sub_status,           \* CertStatusManager::status_, by the number of the update it came from
    sub_posts,            \* how many updates the CMS has posted
    sub_last,             \* history: the last posted update that verifies
    sub_calls,            \* history: the updates the status callback was called with
    wait_pc,              \* position of the caller of waitForStatus
    wait_clock,           \* real time, in sleeps of 500 ms
    wait_start,           \* start: the value of time(nullptr) at the call, in seconds
    wait_status,          \* status_ of the manager: none, a status that is not valid, a valid one
    wait_sleeps,          \* history: how often the call has slept
    wait_ret,             \* the status the call returned
    chanByCID,            \* of one ServerConn: CID -> the SID of the channel pointed to
    chanBySID,            \* of one ServerConn: SID -> the cid field of the channel
    nextSID,              \* of one ServerConn
    chan_bev,             \* bev of the connection is set
    chan_reply,           \* the last reply written to the connection (without its cid)
    chan_asserted,        \* history: an assert of the channel handlers failed
    expectSeg,            \* of one ServerConn: a segmented message is in progress
    segCmd,               \* of one ServerConn: the command of the message in progress
    segBuf,               \* of one ServerConn: the segments gathered, by their flags
    seg_bev,              \* bev of the connection is set
    seg_event             \* history: what bevRead did with the last message it took

mainvars == <<now, status_check_enabled, peer_statuses, cms, mq, vpc, vcert, vget,
              vghost, revoked_delivered, corrupt_dropped, exited, ev, last_fn>>
purevars == <<pf_in, pf_out>>
threadvars == <<car, lock, mgr, cb_pc, tls_pc>>
cmsvars == <<certs, cnow, last_op>>
pubvars == <<up, pending, posted, commits, crashes>>
connvars == <<connections, nconn, removals, asserted, dispatched>>
subvars == <<sub_queue, sub_event, sub_status, sub_posts, sub_last, sub_calls>>
waitvars == <<wait_pc, wait_clock, wait_start, wait_status, wait_sleeps, wait_ret>>
chanvars == <<chanByCID, chanBySID, nextSID, chan_bev, chan_reply, chan_asserted>>
segvars == <<expectSeg, segCmd, segBuf, seg_bev, seg_event>>
vars == <<now, status_check_enabled, peer_statuses, cms, mq, vpc, vcert, vget,
          vghost, revoked_delivered, corrupt_dropped, exited, ev, last_fn, pf_in, pf_out,
          car, lock, mgr, cb_pc, tls_pc, certs, cnow, last_op,
          up, pending, posted, commits, crashes,
          connections, nconn, removals, asserted, dispatched,
          sub_queue, sub_event, sub_status, sub_posts, sub_last, sub_calls,
          wait_pc, wait_clock, wait_start, wait_status, wait_sleeps, wait_ret,
          chanByCID, chanBySID, nextSID, chan_bev, chan_reply, chan_asserted,
          expectSeg, segCmd, segBuf, seg_bev, seg_event>>

\* What the steps of one specification leave alone
restOfMain == <<purevars, threadvars, cmsvars, pubvars, connvars, subvars, waitvars, chanvars, segvars>>
restOfPure == <<mainvars, threadvars, cmsvars, pubvars, connvars, subvars, waitvars, chanvars, segvars>>
restOfThreads == <<mainvars, purevars, cmsvars, pubvars, connvars, subvars, waitvars, chanvars, segvars>>
restOfCms == <<mainvars, purevars, threadvars, pubvars, connvars, subvars, waitvars, chanvars, segvars>>
restOfPublish == <<mainvars, purevars, threadvars, connvars, subvars, waitvars, chanvars, segvars>>
restOfConn == <<mainvars, purevars, threadvars, cmsvars, pubvars, subvars, waitvars, chanvars, segvars>>
restOfSub == <<mainvars, purevars, threadvars, cmsvars, pubvars, connvars, waitvars, chanvars, segvars>>
restOfWait == <<mainvars, purevars, threadvars, cmsvars, pubvars, connvars, subvars, chanvars, segvars>>
restOfChan == <<mainvars, purevars, threadvars, cmsvars, pubvars, connvars, subvars, waitvars, segvars>>
restOfSeg == <<mainvars, purevars, threadvars, cmsvars, pubvars, connvars, subvars, waitvars, chanvars>>

-----------------------------------------------------------------------------
(* Bounds of the model *)

MaxTicks == 2
TickSecs == 900
MaxQueue == 1

\* One peer serial: ossl_verify and the subscription callback touch only the
\* cache entry of their own certificate's serial.
Serials == {1}

-----------------------------------------------------------------------------
(* certstatus_t and ocspcertstatus_t *)

UNKNOWN == 0
PENDING_APPROVAL == 1
PENDING == 2
VALID == 3
EXPIRED == 4
REVOKED == 5

OCSP_CERTSTATUS_GOOD == 0
OCSP_CERTSTATUS_REVOKED == 1
OCSP_CERTSTATUS_UNKNOWN == 2

CertStatuses == {UNKNOWN, PENDING_APPROVAL, PENDING, VALID, EXPIRED, REVOKED}
OcspStatuses == {OCSP_CERTSTATUS_GOOD, OCSP_CERTSTATUS_REVOKED, OCSP_CERTSTATUS_UNKNOWN}

cert_status_validity_mins == 30

\* An indeterminate time_t: StatusDate() = default leaves t unset.  The two
\* values stand for "already past" and "still in the future" at every clock
\* value of the model.
IndeterminateTimes == {0, 1000000}

\* The unset dates a status built from ocsp_bytes may end up with: they are
\* read only when the bytes are empty.
Indeterminate(ocsp_bytes_empty) == IF ocsp_bytes_empty THEN IndeterminateTimes ELSE {0}

-----------------------------------------------------------------------------
(* Results of operations that may throw *)

NoStatus == [status |-> UNKNOWN, ocsp_status |-> OCSP_CERTSTATUS_UNKNOWN, status_date |-> 0,
             status_valid_until_date |-> 0, revocation_date |-> 0, ocsp_bytes |-> <<>>]

Ok(v) == [ok |-> TRUE, err |-> "", val |-> v]
Throw(e) == [ok |-> FALSE, err |-> e, val |-> NoStatus]

-----------------------------------------------------------------------------
(* The signed status token (ocsp_bytes).  The bytes are either empty, <<>>, *)
(* or hold one OCSP response, <<r>>, whose fields are what the decoder      *)
(* reads out of it.                                                         *)

Response(serial, ocsp_status, this_update, next_update, revocation_time) ==
    [wellformed |-> TRUE, signer_ok |-> TRUE, serial |-> serial, ocsp_status |-> ocsp_status,
     this_update |-> this_update, next_update |-> next_update,
     revocation_time |-> revocation_time]

\* OpenSSL's OCSP_check_validity(thisupd, nextupd, sec, maxsec) at time t:
\* 1 when thisupd is not in the future, not older than maxsec, and nextupd
\* is not in the past (each with sec seconds of leeway), else 0.
OCSP_check_validity(thisupd, nextupd, sec, maxsec, t) ==
    IF thisupd > t + sec THEN 0
    ELSE IF maxsec >= 0 /\ thisupd < t - maxsec THEN 0
    ELSE IF nextupd < t - sec THEN 0
    ELSE IF nextupd < thisupd THEN 0
    ELSE 1

\* CertStatusManager::parse at time t.  The value of OCSP_check_validity is
\* computed and dropped, as in the source.
parse(ocsp_bytes, t) ==
    LET r == ocsp_bytes[1]
        checked == OCSP_check_validity(r.this_update, r.next_update, 0, 5, t)
    IN  IF ~r.wellformed THEN Throw("OCSPParseException: Failed to parse OCSP response")
        ELSE IF ~r.signer_ok THEN Throw("OCSPParseException: verifying OCSP response")
        ELSE IF r.ocsp_status = OCSP_CERTSTATUS_REVOKED /\ r.revocation_time = 0
             THEN Throw("OCSPParseException: Revocation time not set when status is REVOKED")
        ELSE Ok([status |-> UNKNOWN, ocsp_status |-> r.ocsp_status,
                 status_date |-> r.this_update,
                 status_valid_until_date |-> r.next_update,
                 revocation_date |-> r.revocation_time, ocsp_bytes |-> ocsp_bytes])

-----------------------------------------------------------------------------
(* OCSPStatus and CertificateStatus *)

\* A status that never goes stale
isValid_Always(st, t) == TRUE

\* OCSPStatus::isValid
isValid(st, t) == st.status_valid_until_date > t

\* Goodness without the test of ocsp_status
isGood_ValidOnly(st, t) == isValid(st, t)

\* OCSPStatus::isGood
isGood(st, t) == isValid(st, t) /\ st.ocsp_status = OCSP_CERTSTATUS_GOOD

\* OCSPStatus(ocsp_bytes) { init(); }: with bytes, the fields parsed out of
\* them; without, the UNKNOWN status and dates that were never set.
OCSPStatus_init(ocsp_bytes, t, junk) ==
    IF ocsp_bytes = <<>>
    THEN Ok([NoStatus EXCEPT !.status_valid_until_date = junk])
    ELSE parse(ocsp_bytes, t)

\* CertificateStatus::selfConsistent
selfConsistent(st) ==
    \/ st.ocsp_status = OCSP_CERTSTATUS_UNKNOWN /\ ~(st.status = VALID \/ st.status = REVOKED)
    \/ st.ocsp_status = OCSP_CERTSTATUS_REVOKED /\ st.status = REVOKED
    \/ st.ocsp_status = OCSP_CERTSTATUS_GOOD /\ st.status = VALID

\* A comparison of the status date alone
dateConsistent_StatusDateOnly(st, status_date_value, valid_until_value, revocation_value) ==
    st.status_date = status_date_value

\* CertificateStatus::dateConsistent
dateConsistent(st, status_date_value, status_valid_until_date_value, revocation_date_value) ==
    /\ st.status_date = status_date_value
    /\ st.status_valid_until_date = status_valid_until_date_value
    /\ st.revocation_date = revocation_date_value

\* A status value as it travels on the STATUS PV
StatusValue(status, ocsp_response, status_date, certified_until, revocation_date) ==
    [status |-> status, ocsp_response |-> ocsp_response, ocsp_status_date |-> status_date,
     ocsp_certified_until |-> certified_until, ocsp_revocation_date |-> revocation_date]

\* CertificateStatus(const Value&)
CertificateStatusFromValue(status_value, t, junk) ==
    LET base == OCSPStatus_init(status_value.ocsp_response, t, junk)
        st == [base.val EXCEPT !.status = status_value.status]
    IN  IF ~base.ok THEN base
        ELSE IF st.ocsp_bytes = <<>> THEN Ok(st)
        ELSE IF ~selfConsistent(st)
                \/ ~dateConsistent(st, status_value.ocsp_status_date,
                                   status_value.ocsp_certified_until,
                                   status_value.ocsp_revocation_date)
             THEN Throw("OCSPParseException: Certificate status does not match certified OCSP status")
        ELSE Ok(st)

\* CertificateStatus(certstatus_t, time_t, time_t)
CertificateStatusFromPva(pva_status, status_valid_until_date, revocation_date, t) ==
    [status |-> pva_status,
     ocsp_status |-> IF pva_status = REVOKED THEN OCSP_CERTSTATUS_REVOKED
                     ELSE IF pva_status = VALID THEN OCSP_CERTSTATUS_GOOD
                     ELSE OCSP_CERTSTATUS_UNKNOWN,
     status_date |-> t, status_valid_until_date |-> status_valid_until_date,
     revocation_date |-> revocation_date, ocsp_bytes |-> <<>>]

\* CertificateStatus()
CertificateStatusDefault(junk) ==
    [NoStatus EXCEPT !.status_valid_until_date = junk]

-----------------------------------------------------------------------------
(* Peer certificates and verification errors *)

\* The status-PV extension of a certificate: absent, present with the PV
\* name, or present with a payload that cannot be read.
ExtKinds == {"none", "uri", "nodata"}
Certs == [serial : Serials, ext : ExtKinds]

X509_V_OK == 0
X509_V_ERR_CERT_HAS_EXPIRED == 10
X509_V_ERR_DEPTH_ZERO_SELF_SIGNED_CERT == 18
X509_V_ERR_SELF_SIGNED_CERT_IN_CHAIN == 19
X509_V_ERR_UNABLE_TO_GET_ISSUER_CERT_LOCALLY == 20

VerifyErrors == {X509_V_ERR_CERT_HAS_EXPIRED, X509_V_ERR_DEPTH_ZERO_SELF_SIGNED_CERT,
                 X509_V_ERR_SELF_SIGNED_CERT_IN_CHAIN,
                 X509_V_ERR_UNABLE_TO_GET_ISSUER_CERT_LOCALLY}

\* A monitoring requirement that ignores the extension
statusMonitoringRequired_Always(cert) == TRUE

\* CertStatusManager::statusMonitoringRequired
statusMonitoringRequired(cert) == cert.ext # "none"

\* CertStatusManager::getStatusPvFromCert: TRUE when it returns the PV name,
\* FALSE when it throws CertStatusNoExtensionException
getStatusPvFromCert(cert) == cert.ext = "uri"

-----------------------------------------------------------------------------
(* The CMS as the relying party sees it *)

\* OCSP status the CMS certifies for a certificate status
OcspOf(status) ==
    IF status = VALID THEN OCSP_CERTSTATUS_GOOD
    ELSE IF status = REVOKED THEN OCSP_CERTSTATUS_REVOKED
    ELSE OCSP_CERTSTATUS_UNKNOWN

\* Lifecycle of a stored certificate.  (EXPIRED is left out: to a relying
\* party it reads like PENDING, a status that is neither good nor revoked.)
CmsTransition(old, new) ==
    \/ old = PENDING /\ new = VALID
    \/ old \in {PENDING, VALID} /\ new = REVOKED

\* A status message as the CMS signs it: the status and the signing time
NoMsg == [status |-> UNKNOWN, t |-> 0]

\* The status value the CMS publishes for a message
CmsStatusValue(serial, msg) ==
    LET until == msg.t + cert_status_validity_mins * 60
        revoked == IF msg.status = REVOKED THEN msg.t ELSE 0
    IN  StatusValue(msg.status,
                    <<Response(serial, OcspOf(msg.status), msg.t, until, revoked)>>,
                    msg.t, until, revoked)

\* What may happen to a value on its way: nothing, a corrupted byte that
\* breaks the encoding or the signature, the response bytes dropped, or the
\* degraded value UNKNOWN without bytes.
Tampers == {"none", "corrupt", "forged", "strip", "degraded"}

Received(tamper, v) ==
    CASE tamper = "none" -> v
      [] tamper = "corrupt" -> [v EXCEPT !.ocsp_response = <<[@[1] EXCEPT !.wellformed = FALSE]>>]
      [] tamper = "forged" -> [v EXCEPT !.ocsp_response = <<[@[1] EXCEPT !.signer_ok = FALSE]>>]
      [] tamper = "strip" -> [v EXCEPT !.ocsp_response = <<>>]
      [] tamper = "degraded" -> StatusValue(UNKNOWN, <<>>, 0, 0, 0)

-----------------------------------------------------------------------------
(* The peer status cache of a TLS context *)

NoPeerStatus == [status |-> <<>>, cert_status_manager |-> FALSE]

\* CertStatusExData::getCachedPeerStatus: <<>> is the null pointer
getCachedPeerStatus(statuses, serial) == statuses[serial].status

\* CertStatusExData::setCachedPeerStatus
setCachedPeerStatus(statuses, serial, st) ==
    [statuses EXCEPT ![serial].status = <<st>>]

-----------------------------------------------------------------------------
(* What a step did, for the properties to read *)

NoEv == [type |-> "none", serial |-> 0, ext |-> "none", preverify_ok |-> 0, err |-> 0,
         result |-> 0, fetched |-> FALSE, absent |-> FALSE, cached_fresh |-> FALSE,
         after_revoked |-> FALSE, after_corrupt |-> FALSE, failure |-> "none",
         tamper |-> "none", accepted |-> FALSE, notified |-> "none", msg |-> NoMsg]

NoGhost == [preverify_ok |-> 0, absent |-> FALSE, after_revoked |-> FALSE,
            after_corrupt |-> FALSE, overdue |-> FALSE]

NoCert == [serial |-> 0, ext |-> "none"]
NoGet == [state |-> "none", msg |-> NoMsg]

\* The failure a relying party meets on a received value, if any
FailureOf(tamper, msg, t) ==
    IF tamper = "corrupt" THEN "MalformedToken"
    ELSE IF tamper = "forged" THEN "UnverifiedSigner"
    ELSE IF tamper = "none" /\ msg.t + cert_status_validity_mins * 60 <= t THEN "ExpiredWindow"
    ELSE "none"

-----------------------------------------------------------------------------
(* ossl_verify *)

\* Line 927: the cached status is missing or no longer valid
NeedsFetch(peer_status, t) == peer_status = <<>> \/ ~isValid(peer_status[1], t)

\* A verdict that does not look at the status
Verdict_Always(preverify_ok, st, t) == preverify_ok

\* Lines 930-932 and 954-955: the verdict on a status
Verdict(preverify_ok, st, t) == IF ~isGood(st, t) THEN 0 ELSE preverify_ok

\* Lines 941-955: preverify_ok is 0
VerdictOnError(preverify_ok, err) ==
    IF \/ err = X509_V_ERR_UNABLE_TO_GET_ISSUER_CERT_LOCALLY
       \/ err = X509_V_ERR_DEPTH_ZERO_SELF_SIGNED_CERT
       \/ err = X509_V_ERR_SELF_SIGNED_CERT_IN_CHAIN
    THEN preverify_ok
    ELSE preverify_ok

VerifyReturn(cert, preverify_ok, err, result, e) ==
    /\ vpc' = "idle"
    /\ vcert' = NoCert
    /\ vget' = NoGet
    /\ vghost' = NoGhost
    /\ ev' = [e EXCEPT !.type = "return", !.serial = cert.serial, !.ext = cert.ext,
                       !.preverify_ok = preverify_ok, !.err = err, !.result = result]

\* The call up to its return or, when the status has to be fetched, up to
\* the GET it sends (lines 909-928).
ossl_verify(preverify_ok, cert, err) ==
    /\ vpc = "idle"
    /\ LET peer_status == getCachedPeerStatus(peer_statuses, cert.serial)
           e == [NoEv EXCEPT !.absent = (peer_status = <<>>),
                             !.cached_fresh = (peer_status # <<>> /\ isValid(peer_status[1], now)),
                             !.after_revoked = (cert.serial \in revoked_delivered),
                             !.after_corrupt = (cert.serial \in corrupt_dropped)]
       IN  IF preverify_ok # 0
           THEN IF ~statusMonitoringRequired(cert)
                THEN /\ VerifyReturn(cert, preverify_ok, err, preverify_ok, NoEv)
                     /\ UNCHANGED exited
                ELSE IF status_check_enabled
                THEN IF NeedsFetch(peer_status, now)
                     THEN IF ~getStatusPvFromCert(cert)
                          THEN \* CertStatusNoExtensionException: exit(1)
                               /\ exited' = TRUE
                               /\ ev' = [e EXCEPT !.type = "exit", !.serial = cert.serial,
                                                  !.ext = cert.ext,
                                                  !.preverify_ok = preverify_ok,
                                                  !.failure = "MissingExtension"]
                               /\ UNCHANGED <<vpc, vcert, vget, vghost>>
                          ELSE /\ vpc' = "get"
                               /\ vcert' = cert
                               /\ vget' = [state |-> "sent", msg |-> NoMsg]
                               /\ vghost' = [preverify_ok |-> preverify_ok,
                                             absent |-> e.absent,
                                             after_revoked |-> e.after_revoked,
                                             after_corrupt |-> e.after_corrupt,
                                             overdue |-> FALSE]
                               /\ ev' = [e EXCEPT !.type = "get", !.serial = cert.serial,
                                                  !.ext = cert.ext,
                                                  !.preverify_ok = preverify_ok]
                               /\ UNCHANGED exited
                     ELSE /\ VerifyReturn(cert, preverify_ok, err,
                                          Verdict(preverify_ok, peer_status[1], now), e)
                          /\ UNCHANGED exited
                ELSE /\ VerifyReturn(cert, preverify_ok, err, preverify_ok, e)
                     /\ UNCHANGED exited
           ELSE /\ VerifyReturn(cert, preverify_ok, err, VerdictOnError(preverify_ok, err), NoEv)
                /\ UNCHANGED exited
    /\ corrupt_dropped' = corrupt_dropped \ {cert.serial}
    /\ UNCHANGED <<now, status_check_enabled, peer_statuses, cms, mq, revoked_delivered>>
    /\ UNCHANGED <<restOfMain, last_fn>>

\* The CMS answers the GET with the status it holds
CmsGetRespond ==
    /\ vpc = "get"
    /\ vget.state = "sent"
    /\ vget' = [state |-> "resp", msg |-> [status |-> cms[vcert.serial], t |-> now]]
    /\ ev' = NoEv
    /\ UNCHANGED <<now, status_check_enabled, peer_statuses, cms, mq, vpc, vcert, vghost,
                   revoked_delivered, corrupt_dropped, exited>>
    /\ UNCHANGED <<restOfMain, last_fn>>

\* CertStatusManager::getStatus returns or throws, and ossl_verify runs to
\* its return (lines 928-940).
ossl_verify_fetched(tamper, junk) ==
    /\ vpc = "get"
    /\ vget.state = "resp"
    /\ LET serial == vcert.serial
           got == CertificateStatusFromValue(Received(tamper, CmsStatusValue(serial, vget.msg)),
                                             now, junk)
           e == [NoEv EXCEPT !.fetched = TRUE, !.absent = vghost.absent,
                             !.after_revoked = vghost.after_revoked,
                             !.after_corrupt = vghost.after_corrupt,
                             !.failure = FailureOf(tamper, vget.msg, now),
                             !.tamper = tamper, !.accepted = got.ok, !.msg = vget.msg]
       IN  IF got.ok
           THEN /\ peer_statuses' = setCachedPeerStatus(peer_statuses, serial, got.val)
                /\ VerifyReturn(vcert, vghost.preverify_ok, X509_V_OK,
                                Verdict(vghost.preverify_ok, got.val, now), e)
           ELSE \* std::runtime_error
                /\ peer_statuses' = peer_statuses
                /\ VerifyReturn(vcert, vghost.preverify_ok, X509_V_OK, 0, e)
    /\ UNCHANGED <<now, status_check_enabled, cms, mq, revoked_delivered, corrupt_dropped,
                   exited>>
    /\ UNCHANGED <<restOfMain, last_fn>>

\* The GET ends without a value (client::Timeout and the like)
ossl_verify_timeout ==
    /\ vpc = "get"
    /\ VerifyReturn(vcert, vghost.preverify_ok, X509_V_OK, 0,
                    [NoEv EXCEPT !.fetched = TRUE, !.absent = vghost.absent,
                                 !.after_revoked = vghost.after_revoked,
                                 !.after_corrupt = vghost.after_corrupt,
                                 !.failure = "Timeout"])
    /\ UNCHANGED <<now, status_check_enabled, peer_statuses, cms, mq, revoked_delivered,
                   corrupt_dropped, exited>>
    /\ UNCHANGED <<restOfMain, last_fn>>

-----------------------------------------------------------------------------
(* The status subscription of a peer certificate *)

\* CertStatusExData::subscribeToCertStatus.  connects says whether
\* CertStatusManager::subscribe returns a manager or throws; whatever it
\* throws is swallowed.
subscribeToCertStatus(cert, connects) ==
    /\ peer_statuses' =
          IF peer_statuses[cert.serial].cert_status_manager THEN peer_statuses
          ELSE IF getStatusPvFromCert(cert) /\ connects
               THEN [peer_statuses EXCEPT ![cert.serial].cert_status_manager = TRUE]
               ELSE peer_statuses
    /\ ev' = [NoEv EXCEPT !.type = "subscribe", !.serial = cert.serial, !.ext = cert.ext,
                          !.accepted = peer_statuses'[cert.serial].cert_status_manager]
    /\ UNCHANGED <<now, status_check_enabled, cms, mq, vpc, vcert, vget, vghost,
                   revoked_delivered, corrupt_dropped, exited>>
    /\ UNCHANGED <<restOfMain, last_fn>>

\* The CMS posts the status it holds to the subscription of a serial
CmsPost(serial) ==
    /\ peer_statuses[serial].cert_status_manager
    /\ Len(mq[serial]) < MaxQueue
    /\ mq' = [mq EXCEPT ![serial] = Append(@, [status |-> cms[serial], t |-> now])]
    /\ ev' = NoEv
    /\ UNCHANGED <<now, status_check_enabled, peer_statuses, cms, vpc, vcert, vget, vghost,
                   revoked_delivered, corrupt_dropped, exited>>
    /\ UNCHANGED <<restOfMain, last_fn>>

\* A callback that reports every update
Notify_Always(was_good, is_good) == IF is_good THEN "good" ELSE "bad"

\* Lines 1436-1439 of the callback: fn(is_good) is called when the goodness
\* changed; "none" when it is not called
Notify(was_good, is_good) ==
    IF is_good # was_good THEN (IF is_good THEN "good" ELSE "bad") ELSE "none"

\* The monitor event handler of CertStatusManager::subscribe, with the
\* callback that subscribeToCertStatus passed to it: an update is popped,
\* verified, stored in the cache, and fn(is_good) is called when the
\* goodness changed.  An update that fails verification is logged and dropped.
MonitorEvent(serial, tamper, junk) ==
    /\ peer_statuses[serial].cert_status_manager
    /\ mq[serial] # <<>>
    /\ LET msg == Head(mq[serial])
           status_update == CertificateStatusFromValue(
                                Received(tamper, CmsStatusValue(serial, msg)), now, junk)
           previous_status == getCachedPeerStatus(peer_statuses, serial)
           was_good == previous_status # <<>> /\ isGood(previous_status[1], now)
           is_good == isGood(status_update.val, now)
           verified == status_update.ok /\ status_update.val.ocsp_bytes # <<>>
       IN  /\ mq' = [mq EXCEPT ![serial] = Tail(@)]
           /\ last_fn' = IF status_update.ok /\ Notify(was_good, is_good) # "none"
                          THEN [last_fn EXCEPT ![serial] = Notify(was_good, is_good)]
                          ELSE last_fn
           /\ IF status_update.ok
              THEN /\ peer_statuses' = setCachedPeerStatus(peer_statuses, serial, status_update.val)
                   /\ ev' = [NoEv EXCEPT !.type = "update", !.serial = serial, !.tamper = tamper,
                                         !.accepted = TRUE, !.msg = msg,
                                         !.notified = Notify(was_good, is_good)]
                   /\ revoked_delivered' =
                         IF verified /\ status_update.val.ocsp_status = OCSP_CERTSTATUS_REVOKED
                         THEN revoked_delivered \cup {serial} ELSE revoked_delivered
                   /\ corrupt_dropped' = corrupt_dropped \ {serial}
              ELSE /\ peer_statuses' = peer_statuses
                   /\ ev' = [NoEv EXCEPT !.type = "update", !.serial = serial, !.tamper = tamper,
                                         !.accepted = FALSE, !.msg = msg,
                                         !.failure = FailureOf(tamper, msg, now)]
                   /\ revoked_delivered' = revoked_delivered
                   /\ corrupt_dropped' = corrupt_dropped \cup {serial}
    /\ UNCHANGED <<now, status_check_enabled, cms, vpc, vcert, vget, vghost, exited>>
    /\ UNCHANGED restOfMain

-----------------------------------------------------------------------------
(* The CMS and the clock *)

CmsSetStatus(serial, new) ==
    /\ CmsTransition(cms[serial], new)
    /\ cms' = [cms EXCEPT ![serial] = new]
    /\ ev' = NoEv
    /\ UNCHANGED <<now, status_check_enabled, peer_statuses, mq, vpc, vcert, vget, vghost,
                   revoked_delivered, corrupt_dropped, exited>>
    /\ UNCHANGED <<restOfMain, last_fn>>

Tick ==
    /\ now < (MaxTicks + 1) * TickSecs
    /\ now' = now + TickSecs
    /\ vghost' = IF vpc = "get" /\ TickSecs > 3 THEN [vghost EXCEPT !.overdue = TRUE] ELSE vghost
    /\ ev' = NoEv
    /\ UNCHANGED <<status_check_enabled, peer_statuses, cms, mq, vpc, vcert, vget,
                   revoked_delivered, corrupt_dropped, exited>>
    /\ UNCHANGED <<restOfMain, last_fn>>

-----------------------------------------------------------------------------
(* The threads that touch one TLS context: the TLS thread, which runs      *)
(* ossl_verify, subscribeToCertStatus and the tear-down of the context,    *)
(* and the client worker thread, which runs the monitor event handler.     *)
(* Each access to peer_statuses is a position of its thread, so that two   *)
(* accesses at the same time are a state of the model.                     *)

\* Who can hold a reference to the manager: the cache entry of the context,
\* and the handler after weak_cert_status_manager.lock()
NoManager == [state |-> "none", holders |-> {}, sub |-> "none", client |-> "none"]

\* CertStatusManager::unsubscribe on a manager with a client
unsubscribe(m) ==
    [m EXCEPT !.sub = IF @ = "none" THEN "none" ELSE "cancelled",
              !.client = IF @ = "none" THEN "none" ELSE "closed"]

\* A holder lets go of the manager; the last one unsubscribes and deletes it
Release(m, holder) ==
    LET left == m.holders \ {holder}
    IN  IF m.state = "alive" /\ holder \in m.holders /\ left = {}
        THEN [unsubscribe(m) EXCEPT !.state = "deleted", !.holders = {}]
        ELSE [m EXCEPT !.holders = left]

\* UnGuard that leaves the mutex with its owner
UnGuard_Held(owner) == owner

\* UnGuard U(G): epicsGuardRelease unlocks the mutex
UnGuard(owner) == "none"

ThreadsIdle ==
    /\ car = "alive"
    /\ lock = "none"
    /\ mgr = NoManager
    /\ cb_pc = "idle"
    /\ tls_pc = "idle"

\* ossl_verify, line 924: getCachedPeerStatus reads the cache
T_VerifyRead ==
    /\ tls_pc = "idle" /\ car = "alive"
    /\ tls_pc' = "verify_read"
    /\ UNCHANGED <<car, lock, mgr, cb_pc>>
    /\ UNCHANGED restOfThreads

\* Lines 927-928: the status is fresh and the call returns, or
\* CertStatusManager::getStatus is called
T_VerifyGet ==
    /\ tls_pc = "verify_read"
    /\ tls_pc' \in {"idle", "verify_get"}
    /\ UNCHANGED <<car, lock, mgr, cb_pc>>
    /\ UNCHANGED restOfThreads

\* Line 928: getStatus returned and setCachedPeerStatus writes the cache,
\* or getStatus threw and the call returns
T_VerifyStore ==
    /\ tls_pc = "verify_get"
    /\ tls_pc' \in {"idle", "verify_store"}
    /\ UNCHANGED <<car, lock, mgr, cb_pc>>
    /\ UNCHANGED restOfThreads

\* Lines 930-955: the call returns
T_VerifyReturn ==
    /\ tls_pc = "verify_store"
    /\ tls_pc' = "idle"
    /\ UNCHANGED <<car, lock, mgr, cb_pc>>
    /\ UNCHANGED restOfThreads

\* subscribeToCertStatus, line 1417: peer_statuses[serial_number] finds or
\* creates the entry
T_SubscribeEntry ==
    /\ tls_pc = "idle" /\ car = "alive"
    /\ tls_pc' = "sub_entry"
    /\ UNCHANGED <<car, lock, mgr, cb_pc>>
    /\ UNCHANGED restOfThreads

\* Lines 1419-1425: return when already subscribed; else
\* CertStatusManager::subscribe creates the manager with its client and its
\* subscription, or throws
T_SubscribeCall ==
    /\ tls_pc = "sub_entry"
    /\ IF mgr.state = "alive"
       THEN tls_pc' = "idle" /\ mgr' = mgr
       ELSE \/ /\ tls_pc' = "sub_assign"
               /\ mgr' = [state |-> "alive", holders |-> {"car"}, sub |-> "active",
                          client |-> "open"]
            \/ tls_pc' = "idle" /\ mgr' = mgr
    /\ UNCHANGED <<car, lock, cb_pc>>
    /\ UNCHANGED restOfThreads

\* Line 1425: the manager is assigned to the entry
T_SubscribeAssign ==
    /\ tls_pc = "sub_assign"
    /\ tls_pc' = "idle"
    /\ UNCHANGED <<car, lock, mgr, cb_pc>>
    /\ UNCHANGED restOfThreads

\* The owner of the manager calls unsubscribe(), any number of times
T_Unsubscribe ==
    /\ tls_pc = "idle" /\ car = "alive" /\ mgr.state = "alive"
    /\ mgr' = unsubscribe(mgr)
    /\ UNCHANGED <<car, lock, cb_pc, tls_pc>>
    /\ UNCHANGED restOfThreads

\* free_SSL_CTX_sidecar: delete car, which lets go of every cache entry
T_Teardown ==
    /\ tls_pc = "idle" /\ car = "alive"
    /\ car' = "freed"
    /\ mgr' = Release(mgr, "car")
    /\ UNCHANGED <<lock, cb_pc, tls_pc>>
    /\ UNCHANGED restOfThreads

\* The monitor event handler, lines 148-150: both weak handles are locked;
\* the handler returns when the manager is gone
H_Begin ==
    /\ cb_pc = "idle" /\ mgr.sub # "none"
    /\ IF mgr.state = "alive"
       THEN /\ cb_pc' = "handler"
            /\ mgr' = [mgr EXCEPT !.holders = @ \cup {"handler"}]
       ELSE /\ cb_pc' = "early"
            /\ mgr' = mgr
    /\ UNCHANGED <<car, lock, tls_pc>>
    /\ UNCHANGED restOfThreads

\* Lines 152-157: the update is popped and verified and status_ is set; the
\* status callback is called unless that threw or nothing was popped
H_Verify ==
    /\ cb_pc = "handler"
    /\ cb_pc' \in {"verified", "done"}
    /\ UNCHANGED <<car, lock, mgr, tls_pc>>
    /\ UNCHANGED restOfThreads

\* The status callback, cert.cpp line 1426: Guard G(lock)
H_Guard ==
    /\ cb_pc = "verified" /\ lock = "none"
    /\ lock' = "cb"
    /\ cb_pc' = "guarded"
    /\ UNCHANGED <<car, mgr, tls_pc>>
    /\ UNCHANGED restOfThreads

\* Lines 1428-1430: getCachedPeerStatus reads the cache
H_Read ==
    /\ cb_pc = "guarded"
    /\ cb_pc' = "cb_read"
    /\ UNCHANGED <<car, lock, mgr, tls_pc>>
    /\ UNCHANGED restOfThreads

\* Lines 1432-1434: setCachedPeerStatus writes the cache
H_Store ==
    /\ cb_pc = "cb_read"
    /\ cb_pc' = "cb_store"
    /\ UNCHANGED <<car, lock, mgr, tls_pc>>
    /\ UNCHANGED restOfThreads

\* Line 1435: UnGuard U(G)
H_UnGuard ==
    /\ cb_pc = "cb_store"
    /\ lock' = UnGuard(lock)
    /\ cb_pc' = "unguarded"
    /\ UNCHANGED <<car, mgr, tls_pc>>
    /\ UNCHANGED restOfThreads

\* Lines 1437-1439: fn(is_good) is called when the goodness changed
H_Fn ==
    /\ cb_pc = "unguarded"
    /\ cb_pc' = "fn"
    /\ UNCHANGED <<car, lock, mgr, tls_pc>>
    /\ UNCHANGED restOfThreads

\* fn goes back into the cache of its context and takes the mutex for it
H_FnReenter ==
    /\ cb_pc = "fn" /\ lock = "none"
    /\ lock' = "cb"
    /\ cb_pc' = "fn_cache"
    /\ UNCHANGED <<car, mgr, tls_pc>>
    /\ UNCHANGED restOfThreads

H_FnLeave ==
    /\ cb_pc = "fn_cache"
    /\ lock' = "none"
    /\ cb_pc' = "fn"
    /\ UNCHANGED <<car, mgr, tls_pc>>
    /\ UNCHANGED restOfThreads

\* Line 1440, end of the lambda: U takes the mutex again
H_ReGuard ==
    /\ cb_pc \in {"unguarded", "fn"} /\ lock \in {"none", "cb"}
    /\ lock' = "cb"
    /\ cb_pc' = "reguarded"
    /\ UNCHANGED <<car, mgr, tls_pc>>
    /\ UNCHANGED restOfThreads

\* and G releases it
H_Release ==
    /\ cb_pc = "reguarded"
    /\ lock' = "none"
    /\ cb_pc' = "done"
    /\ UNCHANGED <<car, mgr, tls_pc>>
    /\ UNCHANGED restOfThreads

\* Line 167: the handler returns and its handles go out of scope
H_End ==
    /\ cb_pc \in {"done", "early"}
    /\ cb_pc' = "idle"
    /\ mgr' = Release(mgr, "handler")
    /\ UNCHANGED <<car, lock, tls_pc>>
    /\ UNCHANGED restOfThreads

-----------------------------------------------------------------------------
(* The certs table of the CMS and the operations that change the status of *)
(* a certificate: CREATE, APPROVE, DENY, REVOKE and the status monitor.    *)
(* The statements and the signature of updateCertificateStatus are those   *)
(* of pvacms.h; the bodies of the operations follow the state machine of   *)
(* the certificate store.                                                  *)

MaxCmsNow == 2
CmsSerials == {1, 2}
CmsTimes == 0..MaxCmsNow

\* A row of certs; the columns that take no part in the status are left out
NoCertRow ==
    [present |-> FALSE, status |-> UNKNOWN, not_before |-> 0, not_after |-> 0,
     status_date |-> 0]

NoOp ==
    [op |-> "none", serial |-> 0, status |-> UNKNOWN, allowed |-> {}, result |-> "none",
     repeat |-> FALSE]

CmsIdle ==
    /\ certs = [s \in CmsSerials |-> NoCertRow]
    /\ cnow = 0
    /\ last_op = NoOp

\* CertFactory::CertFactory: certstatus_t initial_status = VALID
CertFactory_initial_status == VALID

\* The default of the valid_status argument of updateCertificateStatus
valid_status == {PENDING_APPROVAL, PENDING, VALID}

\* SQL_CERT_SET_STATUS: UPDATE certs SET status = :status WHERE serial = :serial
SQL_CERT_SET_STATUS(table, serial, cert_status) ==
    [table EXCEPT ![serial].status = cert_status]

\* SQL_CERT_STATUS: SELECT status, status_date FROM certs WHERE serial = :serial
SQL_CERT_STATUS(table, serial) ==
    IF table[serial].present
    THEN [found |-> TRUE, status |-> table[serial].status,
          status_date |-> table[serial].status_date]
    ELSE [found |-> FALSE, status |-> UNKNOWN, status_date |-> 0]

\* getCertificateStatus(ca_db, serial)
getCertificateStatus(table, serial) == SQL_CERT_STATUS(table, serial)

\* An update that does not look at the status the row has
updateCertificateStatus_Unguarded(table, serial, cert_status, allowed) ==
    [ok |-> TRUE, table |-> SQL_CERT_SET_STATUS(table, serial, cert_status)]

\* updateCertificateStatus(ca_db, serial, cert_status, valid_status): the row
\* changes when its status is one of valid_status, else the update fails
updateCertificateStatus(table, serial, cert_status, allowed) ==
    IF table[serial].present /\ table[serial].status \in allowed
    THEN [ok |-> TRUE, table |-> SQL_CERT_SET_STATUS(table, serial, cert_status)]
    ELSE [ok |-> FALSE, table |-> table]

\* SQL_CERT_TO_VALID: WHERE not_before <= now AND not_after > now
SQL_CERT_TO_VALID(table, t) ==
    {s \in CmsSerials : /\ table[s].present
                        /\ table[s].not_before <= t
                        /\ table[s].not_after > t}

\* SQL_CERT_TO_EXPIRED: WHERE not_after <= now
SQL_CERT_TO_EXPIRED(table, t) ==
    {s \in CmsSerials : table[s].present /\ table[s].not_after <= t}

\* The statuses the status monitor moves on
SweepValidPrior == {PENDING}
SweepExpiredPrior_Any == CertStatuses
SweepExpiredPrior == {VALID}

\* updateCertificateStatus on every selected serial; a failed update is
\* skipped
SweepTo(table, selected, cert_status, allowed) ==
    [s \in CmsSerials |->
        IF s \in selected
        THEN updateCertificateStatus(table, s, cert_status, allowed).table[s]
        ELSE table[s]]

\* certificateStatusMonitor: the certificates that became valid, then the
\* certificates that expired
certificateStatusMonitor(table, t) ==
    LET valid == SweepTo(table, SQL_CERT_TO_VALID(table, t), VALID, SweepValidPrior)
    IN  SweepTo(valid, SQL_CERT_TO_EXPIRED(valid, t), EXPIRED, SweepExpiredPrior)

\* onCreateCertificate / storeCertificate: SQL_CREATE_CERT
onCreateCertificate(serial, not_before, not_after, require_approval) ==
    /\ ~certs[serial].present
    /\ not_before < not_after
    /\ certs' = [certs EXCEPT ![serial] =
                    [present |-> TRUE,
                     status |-> IF require_approval THEN PENDING_APPROVAL
                                ELSE CertFactory_initial_status,
                     not_before |-> not_before, not_after |-> not_after,
                     status_date |-> cnow]]
    /\ last_op' = [NoOp EXCEPT !.op = "create", !.serial = serial, !.result = "ok"]
    /\ UNCHANGED cnow
    /\ UNCHANGED restOfCms

\* A request that ends in updateCertificateStatus
SetStatusOp(op, serial, cert_status, allowed) ==
    /\ certs[serial].present
    /\ LET r == updateCertificateStatus(certs, serial, cert_status, allowed)
       IN  /\ certs' = r.table
           /\ last_op' = [op |-> op, serial |-> serial, status |-> cert_status,
                          allowed |-> allowed,
                          result |-> IF r.ok THEN "ok" ELSE "IllegalTransition",
                          repeat |-> /\ last_op.op = op
                                     /\ last_op.serial = serial
                                     /\ last_op.status = cert_status
                                     /\ last_op.allowed = allowed
                                     /\ last_op.result = "ok"]
    /\ UNCHANGED cnow
    /\ UNCHANGED restOfCms

\* onRevoke with state APPROVED
CmsApprove(serial) ==
    SetStatusOp("approve", serial,
                IF cnow < certs[serial].not_before THEN PENDING ELSE VALID,
                {PENDING_APPROVAL})

\* onRevoke with state DENIED
CmsDeny(serial) == SetStatusOp("deny", serial, REVOKED, {PENDING_APPROVAL})

\* onRevoke with state REVOKED
CmsRevoke(serial) == SetStatusOp("revoke", serial, REVOKED, valid_status)

\* One round of the status monitor
CmsSweep ==
    /\ certs' = certificateStatusMonitor(certs, cnow)
    /\ last_op' = [NoOp EXCEPT !.op = "sweep", !.result = "ok"]
    /\ UNCHANGED cnow
    /\ UNCHANGED restOfCms

CmsTick ==
    /\ cnow < MaxCmsNow
    /\ cnow' = cnow + 1
    /\ last_op' = [NoOp EXCEPT !.op = "tick"]
    /\ UNCHANGED certs
    /\ UNCHANGED restOfCms

-----------------------------------------------------------------------------
(* The CMS service over the certs table: every operation commits its       *)
(* status change with updateCertificateStatus and then posts the stored    *)
(* status on the status PV of the certificate.  The process can stop       *)
(* between the two and be started again.                                   *)

MaxCrashes == 1
PubSerials == {1}

PublishIdle ==
    /\ up = TRUE
    /\ pending = {}
    /\ posted = [s \in CmsSerials |-> <<>>]
    /\ commits = [s \in CmsSerials |-> <<>>]
    /\ crashes = 0

\* The serials whose row differs between two tables
Changed(old, new) == {s \in CmsSerials : old[s] # new[s]}

\* The history of the commits after the rows in changed were committed
Committed(history, table, changed) ==
    [s \in CmsSerials |->
        IF s \in changed THEN Append(history[s], table[s].status) ELSE history[s]]

\* A post that announces VALID whatever is stored
StatusToPost_Valid(table, serial) == VALID

\* postCertificateStatus is given the status that is stored
StatusToPost(table, serial) == table[serial].status

\* The round of the status monitor posts only the rows it changed
SweepPosts_All(old, new) == {s \in CmsSerials : new[s].present}
SweepPosts(old, new) == Changed(old, new)

\* onCreateCertificate: storeCertificate, then the first post
PubCreate(serial, not_before, not_after, require_approval) ==
    /\ up
    /\ ~certs[serial].present
    /\ not_before < not_after
    /\ certs' = [certs EXCEPT ![serial] =
                    [present |-> TRUE,
                     status |-> IF require_approval THEN PENDING_APPROVAL
                                ELSE CertFactory_initial_status,
                     not_before |-> not_before, not_after |-> not_after,
                     status_date |-> cnow]]
    /\ commits' = Committed(commits, certs', {serial})
    /\ pending' = pending \cup {serial}
    /\ UNCHANGED <<cnow, last_op, up, posted, crashes>>
    /\ UNCHANGED restOfPublish

\* onRevoke: updateCertificateStatus, then the post, when the update succeeded
PubSetStatus(serial, cert_status, allowed) ==
    /\ up
    /\ certs[serial].present
    /\ LET r == updateCertificateStatus(certs, serial, cert_status, allowed)
       IN  /\ certs' = r.table
           /\ commits' = Committed(commits, r.table, IF r.ok THEN {serial} ELSE {})
           /\ pending' = IF r.ok THEN pending \cup {serial} ELSE pending
    /\ UNCHANGED <<cnow, last_op, up, posted, crashes>>
    /\ UNCHANGED restOfPublish

PubApprove(serial) ==
    PubSetStatus(serial, IF cnow < certs[serial].not_before THEN PENDING ELSE VALID,
                 {PENDING_APPROVAL})

PubDeny(serial) == PubSetStatus(serial, REVOKED, {PENDING_APPROVAL})

PubRevoke(serial) == PubSetStatus(serial, REVOKED, valid_status)

\* certificateStatusMonitor: one round, then the posts
PubSweep ==
    /\ up
    /\ certs' = certificateStatusMonitor(certs, cnow)
    /\ commits' = Committed(commits, certs', Changed(certs, certs'))
    /\ pending' = pending \cup SweepPosts(certs, certs')
    /\ UNCHANGED <<cnow, last_op, up, posted, crashes>>
    /\ UNCHANGED restOfPublish

\* postCertificateStatus: the monitors of the status PV see the value
PubPost(serial) ==
    /\ up
    /\ serial \in pending
    /\ LET st == StatusToPost(certs, serial)
       IN  posted' = [posted EXCEPT ![serial] =
                         IF @ # <<>> /\ @[Len(@)] = st THEN @ ELSE Append(@, st)]
    /\ pending' = pending \ {serial}
    /\ UNCHANGED <<certs, cnow, last_op, up, commits, crashes>>
    /\ UNCHANGED restOfPublish

\* The process stops; the posts that were not made are lost
PubCrash ==
    /\ up
    /\ crashes < MaxCrashes
    /\ up' = FALSE
    /\ pending' = {}
    /\ crashes' = crashes + 1
    /\ UNCHANGED <<certs, cnow, last_op, posted, commits>>
    /\ UNCHANGED restOfPublish

PubRestart ==
    /\ ~up
    /\ up' = TRUE
    /\ UNCHANGED <<certs, cnow, last_op, pending, posted, commits, crashes>>
    /\ UNCHANGED restOfPublish

PubTick ==
    /\ cnow < MaxCmsNow
    /\ cnow' = cnow + 1
    /\ UNCHANGED <<certs, last_op, up, pending, posted, commits, crashes>>
    /\ UNCHANGED restOfPublish

-----------------------------------------------------------------------------
(* The codec and the constructors on their own: an input is drawn, the     *)
(* function is applied once.                                               *)

PureInput(op, value, t, junk) == [op |-> op, value |-> value, t |-> t, junk |-> junk]
NoPureInput == PureInput("none", StatusValue(UNKNOWN, <<>>, 0, 0, 0), 0, 0)
NoPureResult == [done |-> FALSE, res |-> Throw("")]
PureIdle == pf_in = NoPureInput /\ pf_out = NoPureResult

\* Signing time of the tokens under test, and the validity the CMS is
\* configured with (the default and the shortest)
SignTime == 10000
ValidityMins == {1, cert_status_validity_mins}

\* Seconds after the signing time at which a token is decoded: from the
\* start of the window to past its end and the 5 seconds of slack
Offsets(secs) == {0, 1, 5, 6, secs - 1, secs, secs + 1, secs + 5, secs + 6, secs + 7}

\* Tokens as the CMS signs them at SignTime, and the same with a corrupted
\* encoding, a signer that does not verify, or no revocation time
Tokens ==
    LET signed == {Response(1, o, SignTime, SignTime + m * 60,
                            IF o = OCSP_CERTSTATUS_REVOKED THEN SignTime - 1 ELSE 0) :
                      o \in OcspStatuses, m \in ValidityMins}
    IN  signed
        \cup {[r EXCEPT !.wellformed = FALSE] : r \in signed}
        \cup {[r EXCEPT !.signer_ok = FALSE] : r \in signed}
        \cup {[r EXCEPT !.revocation_time = 0] : r \in signed}

ParseInputs ==
    {PureInput("parse", StatusValue(UNKNOWN, <<r>>, 0, 0, 0), SignTime + d, 0) :
        r \in Tokens, d \in Offsets(cert_status_validity_mins * 60) \cup Offsets(60)}

\* Status values as received: any status index with a token or without
\* bytes, the date fields as certified or one of them off by a second
ValueInputs ==
    LET withBytes ==
            {StatusValue(st, <<r>>, r.this_update + d[1], r.next_update + d[2],
                         r.revocation_time + d[3]) :
                st \in CertStatuses,
                r \in {x \in Tokens : x.next_update = SignTime + 60},
                d \in {<<0, 0, 0>>, <<1, 0, 0>>, <<0, 1, 0>>, <<0, 0, 1>>}}
        withoutBytes == {StatusValue(st, <<>>, 0, 0, 0) : st \in CertStatuses}
    IN  {PureInput("value", v, SignTime + 30, 0) : v \in withBytes}
        \cup {PureInput("value", v, SignTime + 30, j) : v \in withoutBytes,
                                                        j \in IndeterminateTimes}

PvaInputs ==
    {PureInput("pva", StatusValue(st, <<>>, 0, u, IF st = REVOKED THEN SignTime ELSE 0),
               SignTime, 0) :
        st \in CertStatuses, u \in {SignTime - 1, SignTime + 60}}

DefaultInputs == {PureInput("default", NoPureInput.value, SignTime, j) : j \in IndeterminateTimes}

PureParse ==
    /\ pf_in.op = "parse"
    /\ ~pf_out.done
    /\ pf_out' = [done |-> TRUE, res |-> parse(pf_in.value.ocsp_response, pf_in.t)]
    /\ UNCHANGED <<pf_in>>
    /\ UNCHANGED restOfPure

PureFromValue ==
    /\ pf_in.op = "value"
    /\ ~pf_out.done
    /\ pf_out' = [done |-> TRUE,
                  res |-> CertificateStatusFromValue(pf_in.value, pf_in.t, pf_in.junk)]
    /\ UNCHANGED <<pf_in>>
    /\ UNCHANGED restOfPure

PureFromPva ==
    /\ pf_in.op = "pva"
    /\ ~pf_out.done
    /\ pf_out' = [done |-> TRUE,
                  res |-> Ok(CertificateStatusFromPva(pf_in.value.status,
                                                      pf_in.value.ocsp_certified_until,
                                                      pf_in.value.ocsp_revocation_date,
                                                      pf_in.t))]
    /\ UNCHANGED <<pf_in>>
    /\ UNCHANGED restOfPure

PureDefault ==
    /\ pf_in.op = "default"
    /\ ~pf_out.done
    /\ pf_out' = [done |-> TRUE, res |-> Ok(CertificateStatusDefault(pf_in.junk))]
    /\ UNCHANGED <<pf_in>>
    /\ UNCHANGED restOfPure

\* The managers unsubscribe() can be called on: with or without a
\* subscription, with or without a client, before or after an earlier call
Managers ==
    {[state |-> "alive", holders |-> {"car"}, sub |-> sb, client |-> cl] :
        sb \in {"none", "active", "cancelled"}, cl \in {"none", "open", "closed"}}

UnsubscribeInputs == {PureInput("unsubscribe", m, n, 0) : m \in Managers, n \in {1, 2}}

\* CertStatusManager::unsubscribe, lines 182-186: client_->hurryUp() comes
\* before the test of client_, so without a client the call dereferences a
\* null pointer: it crashes, or it goes on as if the line were not there
unsubscribeOutcomes(m) ==
    IF m.client = "none"
    THEN {Throw("client_ is null"), Ok(unsubscribe(m))}
    ELSE {Ok(unsubscribe(m))}

\* n calls in a row
unsubscribeTimes(m, n) ==
    IF n = 1
    THEN unsubscribeOutcomes(m)
    ELSE UNION {IF r.ok THEN unsubscribeOutcomes(r.val) ELSE {r} : r \in unsubscribeOutcomes(m)}

PureUnsubscribe ==
    /\ pf_in.op = "unsubscribe"
    /\ ~pf_out.done
    /\ \E r \in unsubscribeTimes(pf_in.value, pf_in.t) :
          pf_out' = [done |-> TRUE, res |-> r]
    /\ UNCHANGED <<pf_in>>
    /\ UNCHANGED restOfPure

\* Byte strings of the stapling callback
MaxStapleLen == 2
StapleBytes == {1, 2}
StapleStrings == UNION {[1..n -> StapleBytes] : n \in 0..MaxStapleLen}

\* A pointer to a buffer: null, or a buffer with its bytes
NullBuffer == [present |-> FALSE, bytes |-> <<>>]
Buffer(b) == [present |-> TRUE, bytes |-> b]
Buffers == {NullBuffer} \cup {Buffer(b) : b \in StapleStrings}

\* server->current_status, server->cached_ocsp_response, the status type of
\* the connection and what SSL_set_tlsext_status_ocsp_resp will return
StapleInputs ==
    {PureInput("staple", [status_type |-> ty, current |-> cur, cached |-> ca], ok, 0) :
        ty \in {-1, 1}, cur \in Buffers, ca \in Buffers, ok \in {0, 1}}

\* memcmp(ocsp_data_ptr, cached, ocsp_data_len) # 0: only the first
\* ocsp_data_len bytes of the cached buffer are looked at; when the cached
\* buffer is shorter the comparison reads past its end
memcmpDiffers(data, cached) ==
    IF Len(data) <= Len(cached)
    THEN {SubSeq(cached, 1, Len(data)) # data}
    ELSE IF SubSeq(data, 1, Len(cached)) # cached THEN {TRUE} ELSE {TRUE, FALSE}

\* serverOCSPCallback, lines 1354-1383.  attached is what the call of
\* SSL_set_tlsext_status_ocsp_resp, if any, has set on the SSL object of the
\* handshake.
serverOCSPCallback(in, set_resp) ==
    IF in.status_type # -1
    THEN {[ret |-> "ALERT_WARNING", cached |-> in.cached, replaced |-> FALSE,
           attached |-> NullBuffer]}
    ELSE IF ~in.current.present
    THEN {[ret |-> "ALERT_FATAL", cached |-> in.cached, replaced |-> FALSE,
           attached |-> NullBuffer]}
    ELSE LET data == in.current.bytes
             differs == IF ~in.cached.present
                        THEN {TRUE}
                        ELSE memcmpDiffers(data, in.cached.bytes)
         IN  {IF d
              THEN [ret |-> IF set_resp # 1 THEN "ALERT_FATAL" ELSE "OK",
                    cached |-> Buffer(data), replaced |-> TRUE,
                    attached |-> IF set_resp # 1 THEN NullBuffer ELSE Buffer(data)]
              ELSE [ret |-> "OK", cached |-> in.cached, replaced |-> FALSE,
                    attached |-> NullBuffer]
              : d \in differs}

PureStaple ==
    /\ pf_in.op = "staple"
    /\ ~pf_out.done
    /\ \E r \in serverOCSPCallback(pf_in.value, pf_in.t) :
          pf_out' = [done |-> TRUE, res |-> Ok(r)]
    /\ UNCHANGED <<pf_in>>
    /\ UNCHANGED restOfPure

\* Certificate creation requests against a store that holds certificates.
\* A subject stands for the 4-tuple (CN, O, OU, C) and a skid for a subject
\* key identifier.
MaxRows == 1
Subjects == {"alice", "bob"}
Skids == {"k1", "k2"}
Usages == {"client", "server", "gateway"}
AuthTypes == {"x509", "basic"}

RowData == [subject : Subjects, skid : Skids, status : {VALID, EXPIRED}]

\* The stores with rows 1..n
Stores ==
    UNION {{{[serial |-> i, subject |-> f[i].subject, skid |-> f[i].skid,
              status |-> f[i].status] : i \in 1..n} : f \in [1..n -> RowData]}
           : n \in 0..MaxRows}

\* The peer certificate the caller presented on its connection, if any
NoCaller == [present |-> FALSE, expired |-> FALSE, subject |-> ""]
Callers ==
    {NoCaller} \cup [present : {TRUE}, expired : BOOLEAN, subject : Subjects]

\* cert_client_require_approval, cert_server_require_approval and
\* cert_gateway_require_approval
RequireApproval == [Usages -> BOOLEAN]

CreateInputs ==
    {PureInput("create",
               [store |-> st, pvs |-> {r.serial : r \in st},
                ccr |-> [subject |-> sb, skid |-> sk, auth_type |-> au, usage |-> us],
                require_approval |-> ra, caller |-> ca], 0, 0) :
        st \in Stores, sb \in Subjects, sk \in Skids, au \in AuthTypes, us \in Usages,
        ra \in RequireApproval, ca \in Callers}

\* SQL_DUPS_SUBJECT: SELECT COUNT(*) FROM certs WHERE CN, O, OU and C match
SQL_DUPS_SUBJECT(store, subject) == Cardinality({r \in store : r.subject = subject})

\* SQL_DUPS_SUBJECT_KEY_IDENTIFIER: SELECT COUNT(*) FROM certs WHERE skid matches
SQL_DUPS_SUBJECT_KEY_IDENTIFIER(store, skid) == Cardinality({r \in store : r.skid = skid})

\* A check that looks at the subject only
checkForDuplicates_SubjectOnly(store, ccr) ==
    IF SQL_DUPS_SUBJECT(store, ccr.subject) > 0 THEN "DuplicateSubject" ELSE "none"

\* checkForDuplicates
checkForDuplicates(store, ccr) ==
    IF SQL_DUPS_SUBJECT(store, ccr.subject) > 0 THEN "DuplicateSubject"
    ELSE IF SQL_DUPS_SUBJECT_KEY_IDENTIFIER(store, ccr.skid) > 0 THEN "DuplicateKey"
    ELSE "none"

\* The verifier the auth_type of the request selects: a renewal needs a
\* peer certificate that has not expired and has the subject of the request
admitted(ccr, caller) ==
    ccr.auth_type = "x509"
        => (caller.present /\ ~caller.expired /\ caller.subject = ccr.subject)

\* The status a new certificate is stored with
initialStatus(ccr, require_approval) ==
    IF ccr.auth_type = "basic" /\ require_approval[ccr.usage]
    THEN PENDING_APPROVAL
    ELSE CertFactory_initial_status

\* generateSerial: a serial no row has
generateSerial(store) == Cardinality(store) + 1

\* onCreateCertificate: admission, createCertificate (checkForDuplicates,
\* storeCertificate) and the first post on the status PV
createCertificate(in) ==
    LET rejected(why) == [result |-> why, store |-> in.store, pvs |-> in.pvs]
        dup == checkForDuplicates(in.store, in.ccr)
        serial == generateSerial(in.store)
    IN  IF ~admitted(in.ccr, in.caller) THEN rejected("Unauthorized")
        ELSE IF dup # "none" THEN rejected(dup)
        ELSE [result |-> "ok",
              store |-> in.store \cup
                          {[serial |-> serial, subject |-> in.ccr.subject,
                            skid |-> in.ccr.skid,
                            status |-> initialStatus(in.ccr, in.require_approval)]},
              pvs |-> in.pvs \cup {serial}]

PureCreate ==
    /\ pf_in.op = "create"
    /\ ~pf_out.done
    /\ pf_out' = [done |-> TRUE, res |-> Ok(createCertificate(pf_in.value))]
    /\ UNCHANGED <<pf_in>>
    /\ UNCHANGED restOfPure

\* Requests to change the status of a certificate: the state asked for, the
\* row of the certificate, and how the caller was authenticated and whether
\* its name is in the UAG of the administrators of the access-control file
RevokeStates == {"APPROVED", "DENIED", "REVOKED"}
Methods == {"x509", "ca", "anonymous"}

RevokeInputs ==
    {PureInput("revoke",
               [state |-> st,
                table |-> [s \in {1} |-> [present |-> TRUE, status |-> cs, not_before |-> 1,
                                          not_after |-> 2, status_date |-> 0]],
                method |-> me, admin |-> ad], t, 0) :
        st \in RevokeStates, cs \in CertStatuses \ {UNKNOWN}, me \in Methods,
        ad \in BOOLEAN, t \in 0..1}

\* A rule that looks at the name only
authorized_AnyMethod(method, admin) == admin

\* RULE(1,WRITE) { UAG(ADMINS) METHOD("x509") }
authorized(method, admin) == method = "x509" /\ admin

\* onRevoke: the access check, then updateCertificateStatus, then the post
onRevoke(in, t) ==
    LET new == CASE in.state = "APPROVED" ->
                      IF t < in.table[1].not_before THEN PENDING ELSE VALID
                 [] in.state = "DENIED" -> REVOKED
                 [] in.state = "REVOKED" -> REVOKED
        allowed == IF in.state = "REVOKED" THEN valid_status ELSE {PENDING_APPROVAL}
        r == updateCertificateStatus(in.table, 1, new, allowed)
    IN  IF ~authorized(in.method, in.admin)
        THEN [result |-> "Unauthorized", table |-> in.table, posted |-> FALSE]
        ELSE IF ~r.ok
        THEN [result |-> "IllegalTransition", table |-> in.table, posted |-> FALSE]
        ELSE [result |-> "ok", table |-> r.table, posted |-> TRUE]

PureRevoke ==
    /\ pf_in.op = "revoke"
    /\ ~pf_out.done
    /\ pf_out' = [done |-> TRUE, res |-> Ok(onRevoke(pf_in.value, pf_in.t))]
    /\ UNCHANGED <<pf_in>>
    /\ UNCHANGED restOfPure

-----------------------------------------------------------------------------
(* The name of a certificate's status PV.  A name is the sequence of its    *)
(* characters, with the root "CERT:STATUS" as its first element.            *)

MaxSkiLen == 5

\* Bytes of a Subject Key Identifier: 0x00, 0x0a, 0xab
SkiBytes == {0, 10, 171}

RECURSIVE SeqsUpTo(_, _)
SeqsUpTo(S, n) ==
    IF n = 0 THEN {<<>>}
    ELSE LET shorter == SeqsUpTo(S, n - 1)
         IN  shorter \cup {Append(q, x) : q \in {r \in shorter : Len(r) = n - 1}, x \in S}

\* The issuer certificate: with or without the skid extension
NoSki == [present |-> FALSE, data |-> <<>>]
Skis == {NoSki} \cup {[present |-> TRUE, data |-> d] : d \in SeqsUpTo(SkiBytes, MaxSkiLen)}

UriSerials == {0, 9, 10, 255, 4096, 2147483647}

UriInputs == {PureInput("uri", [ca_cert |-> k, serial |-> n], 0, 0) : k \in Skis, n \in UriSerials}

DigitChars == <<"0", "1", "2", "3", "4", "5", "6", "7", "8", "9", "a", "b", "c", "d", "e", "f">>

\* operator<< of an integer in the stream's base: std::hex or the default, decimal
RECURSIVE ToBase(_, _)
ToBase(n, base) ==
    IF n < base THEN <<DigitChars[n + 1]>>
    ELSE ToBase(n \div base, base) \o <<DigitChars[(n % base) + 1]>>

\* std::setw(w) << std::setfill(fill): a minimum width, filled on the left
setw(w, fill, str) ==
    IF Len(str) >= w THEN str ELSE [i \in 1..(w - Len(str)) |-> fill] \o str

\* for (i = 0; i < skid->length && ss.tellp() < 8; i++) ss << hex << setw(2) << buf[i]
RECURSIVE getIssuerId_loop(_, _, _)
getIssuerId_loop(buf, i, ss) ==
    IF i <= Len(buf) /\ Len(ss) < 8
    THEN getIssuerId_loop(buf, i + 1, ss \o setw(2, "0", ToBase(buf[i], 16)))
    ELSE ss

getIssuerId(ca_cert) ==
    IF ~ca_cert.present
    THEN [threw |-> TRUE, id |-> <<>>]
    ELSE [threw |-> FALSE, id |-> getIssuerId_loop(ca_cert.data, 1, <<>>)]

\* The name with the serial given by the digits operator<< writes for it
statusUriOf(issuer_id, digits) ==
    <<"CERT:STATUS", ":">> \o issuer_id \o <<":">> \o setw(16, "0", digits)

makeStatusURI(issuer_id, serial) == statusUriOf(issuer_id, ToBase(serial, 10))

\* The name the CMS gives the status PV of a certificate it has signed
statusPvName(in) ==
    LET issuer == getIssuerId(in.ca_cert)
    IN  IF issuer.threw
        THEN [threw |-> TRUE, name |-> <<>>]
        ELSE [threw |-> FALSE, name |-> makeStatusURI(issuer.id, in.serial)]

PureUri ==
    /\ pf_in.op = "uri"
    /\ ~pf_out.done
    /\ pf_out' = [done |-> TRUE, res |-> Ok(statusPvName(pf_in.value))]
    /\ UNCHANGED <<pf_in>>
    /\ UNCHANGED restOfPure

-----------------------------------------------------------------------------
(* The two ways the certificate tool names a certificate.  A serial is      *)
(* given by its decimal digits, so that serials of the full 64-bit range    *)
(* are among the inputs.                                                    *)

\* 0, 255, 10^15 (16 digits) and the serial of the help text, 7246297371190731775
SerialDigits ==
    {<<"0">>, <<"2", "5", "5">>,
     <<"1", "0", "0", "0", "0", "0", "0", "0", "0", "0", "0", "0", "0", "0", "0", "0">>,
     <<"7", "2", "4", "6", "2", "9", "7", "3", "7", "1", "1", "9", "0", "7", "3", "1", "7", "7", "5">>}

IssuerIds == {getIssuerId_loop(<<0, 10, 171, 171>>, 1, <<>>),
              getIssuerId_loop(<<171, 0, 10, 0>>, 1, <<>>)}

CertIdInputs ==
    {PureInput("certid", [issuer_id |-> i, serial |-> d], 0, 0) :
        i \in IssuerIds, d \in SerialDigits}

\* cert_id = "CERT:STATUS:" + issuer_serial_string, for the cert_id
\* <issuer>:<serial> of the help text
nameFromCertId(issuer_id, digits) ==
    <<"CERT:STATUS", ":">> \o (issuer_id \o <<":">> \o digits)

\* cert_id = getStatusPvFromCert(cert_data.cert): the name in the status
\* extension, which the CMS made with makeStatusURI
nameFromCertFile(issuer_id, digits) == statusUriOf(issuer_id, digits)

PureCertId ==
    /\ pf_in.op = "certid"
    /\ ~pf_out.done
    /\ pf_out' = [done |-> TRUE,
                  res |-> Ok([from_id |-> nameFromCertId(pf_in.value.issuer_id,
                                                         pf_in.value.serial),
                              from_file |-> nameFromCertFile(pf_in.value.issuer_id,
                                                             pf_in.value.serial)])]
    /\ UNCHANGED <<pf_in>>
    /\ UNCHANGED restOfPure

-----------------------------------------------------------------------------
(* Status dates.  A time_t is kept as the pair of its days since the epoch  *)
(* and its second of the day, [days, secs], which stands for                *)
(* days * 86400 + secs; a std::tm is a record of its fields; a date string  *)
(* is the sequence of its fields as strftime writes them.                   *)

\* The UTC calendar of the C library, for gmtime and as the reference
GregorianLeap(year) == year % 4 = 0 /\ (year % 100 # 0 \/ year % 400 = 0)

DaysInYear(year) == IF GregorianLeap(year) THEN 366 ELSE 365

DaysInMonth(year, mon) ==
    IF mon = 1 THEN (IF GregorianLeap(year) THEN 29 ELSE 28)
    ELSE IF mon \in {3, 5, 8, 10} THEN 30 ELSE 31

DaysBeforeYear(year) ==
    (year - 1970) * 365 + Cardinality({y \in 1970..(year - 1) : GregorianLeap(y)})

RECURSIVE DaysBeforeMonth(_, _)
DaysBeforeMonth(year, mon) ==
    IF mon = 0 THEN 0 ELSE DaysBeforeMonth(year, mon - 1) + DaysInMonth(year, mon - 1)

\* The epoch time of a calendar date-time by the standard conversion (timegm)
timegm(tm) ==
    [days |-> DaysBeforeYear(1900 + tm.tm_year) + DaysBeforeMonth(1900 + tm.tm_year, tm.tm_mon)
                 + tm.tm_mday - 1,
     secs |-> (tm.tm_hour * 60 + tm.tm_min) * 60 + tm.tm_sec]

RECURSIVE yearOfDay(_, _)
yearOfDay(days, year) ==
    IF days < DaysInYear(year) THEN [year |-> year, yday |-> days]
    ELSE yearOfDay(days - DaysInYear(year), year + 1)

RECURSIVE monthOfDay(_, _, _)
monthOfDay(yday, year, mon) ==
    IF yday < DaysInMonth(year, mon) THEN [mon |-> mon, mday |-> yday + 1]
    ELSE monthOfDay(yday - DaysInMonth(year, mon), year, mon + 1)

\* std::gmtime
gmtime(time) ==
    LET first == 1970 + time.days \div 366
        y == yearOfDay(time.days - DaysBeforeYear(first), first)
        m == monthOfDay(y.yday, y.year, 0)
    IN  [tm_year |-> y.year - 1900, tm_mon |-> m.mon, tm_mday |-> m.mday,
         tm_hour |-> time.secs \div 3600, tm_min |-> (time.secs % 3600) \div 60,
         tm_sec |-> time.secs % 60, tm_wday |-> (time.days + 4) % 7]

WeekDayNames == <<"Sun", "Mon", "Tue", "Wed", "Thu", "Fri", "Sat">>
MonthNames == <<"Jan", "Feb", "Mar", "Apr", "May", "Jun", "Jul", "Aug", "Sep", "Oct", "Nov", "Dec">>

\* The number a field of digits reads as
RECURSIVE FromDigits(_)
FromDigits(digits) ==
    IF digits = <<>> THEN 0
    ELSE 10 * FromDigits(SubSeq(digits, 1, Len(digits) - 1))
            + (CHOOSE d \in 0..9 : DigitChars[d + 1] = digits[Len(digits)])

\* StatusDate::toString: strftime with CERT_TIME_FORMAT, "%a %b %d %H:%M:%S %Y UTC"
toString(time) ==
    LET tm == gmtime(time)
    IN  <<WeekDayNames[tm.tm_wday + 1], MonthNames[tm.tm_mon + 1],
          setw(2, "0", ToBase(tm.tm_mday, 10)), setw(2, "0", ToBase(tm.tm_hour, 10)),
          setw(2, "0", ToBase(tm.tm_min, 10)), setw(2, "0", ToBase(tm.tm_sec, 10)),
          ToBase(1900 + tm.tm_year, 10), "UTC">>

\* static const int kMonthStartDays[]
kMonthStartDays == <<0, 31, 59, 90, 120, 151, 181, 212, 243, 273, 304, 334>>

\* A conversion that takes every fourth year for a leap year
tmToTimeTUTC_EveryFourth(tm) ==
    LET year == 1900 + tm.tm_year
        days == (year - 1970) * 365 + (year - 1969) \div 4
        leap == IF tm.tm_mon > 1 /\ year % 4 = 0 THEN 1 ELSE 0
    IN  [days |-> days + kMonthStartDays[tm.tm_mon + 1] + leap + tm.tm_mday - 1,
         secs |-> (tm.tm_hour * 60 + tm.tm_min) * 60 + tm.tm_sec]

\* StatusDate::tmToTimeTUTC.  The value returned is
\* ((days * 24 + tm_hour) * 60 + tm_min) * 60 + tm_sec.
tmToTimeTUTC(tm) ==
    LET year == 1900 + tm.tm_year
        days == (year - 1970) * 365 + (year - 1969) \div 4
                   - (year - 1901) \div 100
                   + (year - 1601) \div 400
        leap == IF tm.tm_mon > 1 /\ (year % 4 = 0 /\ (year % 100 # 0 \/ year % 400 = 0))
                THEN 1 ELSE 0
    IN  [days |-> days + kMonthStartDays[tm.tm_mon + 1] + leap + tm.tm_mday - 1,
         secs |-> (tm.tm_hour * 60 + tm.tm_min) * 60 + tm.tm_sec]

\* StatusDate::toTimeT: the empty string is time 0; std::get_time with
\* CERT_TIME_FORMAT fills the std::tm; a string that does not parse throws
toTimeT(time_string) ==
    IF time_string = <<>> THEN Ok([days |-> 0, secs |-> 0])
    ELSE IF \/ Len(time_string) # 8
            \/ time_string[1] \notin {WeekDayNames[i] : i \in 1..7}
            \/ time_string[2] \notin {MonthNames[i] : i \in 1..12}
            \/ time_string[8] # "UTC"
    THEN [ok |-> FALSE, err |-> "OCSPParseException: Failed to parse date-time string.",
          val |-> [days |-> 0, secs |-> 0]]
    ELSE Ok(tmToTimeTUTC([tm_year |-> FromDigits(time_string[7]) - 1900,
                          tm_mon |-> (CHOOSE m \in 1..12 : MonthNames[m] = time_string[2]) - 1,
                          tm_mday |-> FromDigits(time_string[3]),
                          tm_hour |-> FromDigits(time_string[4]),
                          tm_min |-> FromDigits(time_string[5]),
                          tm_sec |-> FromDigits(time_string[6]),
                          tm_wday |-> (CHOOSE w \in 1..7 : WeekDayNames[w] = time_string[1]) - 1]))

\* Years around the epoch, leap years, century years and the year 2038
DateYears == {1970, 1971, 1972, 1999, 2000, 2001, 2038, 2100, 2101, 2400}
DateClocks == {<<0, 0, 0>>, <<12, 30, 15>>, <<23, 59, 59>>}

\* The calendar date-times under test: the first, the 28th and the last day
\* of every month
DateInputs ==
    {PureInput("date",
               [tm_year |-> y - 1900, tm_mon |-> m, tm_mday |-> d, tm_hour |-> c[1],
                tm_min |-> c[2], tm_sec |-> c[3], tm_wday |-> 0], 0, 0) :
        y \in DateYears, m \in 0..11, d \in {1, 28, 29, 30, 31}, c \in DateClocks}

\* StatusDate(time).s given to StatusDate(string), and tmToTimeTUTC of the
\* calendar date-time
PureDate ==
    /\ pf_in.op = "date"
    /\ pf_in.value.tm_mday <= DaysInMonth(1900 + pf_in.value.tm_year, pf_in.value.tm_mon)
    /\ ~pf_out.done
    /\ pf_out' = [done |-> TRUE,
                  res |-> Ok([s |-> toString(timegm(pf_in.value)),
                              roundtrip |-> toTimeT(toString(timegm(pf_in.value))),
                              t |-> tmToTimeTUTC(pf_in.value)])]
    /\ UNCHANGED <<pf_in>>
    /\ UNCHANGED restOfPure

-----------------------------------------------------------------------------
(* The certificate tool: main() from its options to its exit code *)

ToolActions == {"STATUS", "APPROVE", "DENY", "REVOKE"}

\* How the wait for the operation ends: its result callback signals done,
\* the SIGINT handler signals done, or the timeout passes
WaitEnds == {"completed", "interrupted", "timeout"}

\* The command line and what the run meets: help and show_version flags,
\* argc > 2, -p, -f, the positional cert_id, the action flag, an exception
\* outside the two inner try blocks, the certificate file being unreadable,
\* the start of the operation throwing, and the end of the wait
ToolInputs ==
    {PureInput("tool",
               [help |-> h, show_version |-> v, more_args |-> m, password_flag |-> p,
                cert_file |-> f, issuer_serial_string |-> c, action |-> a,
                throws |-> x, file_fails |-> ff, start_fails |-> sf, wait |-> w], 0, 0) :
        h \in BOOLEAN, v \in BOOLEAN, m \in BOOLEAN, p \in BOOLEAN, f \in BOOLEAN,
        c \in BOOLEAN, a \in ToolActions, x \in BOOLEAN, ff \in BOOLEAN,
        sf \in BOOLEAN, w \in WaitEnds}

\* bool waited = done.wait(timeout): true when done was signalled, by the
\* result callback or by the SIGINT handler
waited(in) == in.wait \in {"completed", "interrupted"}

\* The value main() returns (exit(0) for help)
main(in) ==
    IF in.help THEN 0
    ELSE IF in.show_version THEN (IF in.more_args THEN 1 ELSE 0)
    ELSE IF in.password_flag /\ ~in.cert_file THEN 1
    ELSE IF in.cert_file /\ in.action # "STATUS" THEN 2
    ELSE IF in.throws THEN 6
    ELSE IF in.cert_file /\ in.file_fails THEN 3
    ELSE IF in.start_fails THEN 3
    ELSE IF ~waited(in) THEN 4
    ELSE IF ~in.issuer_serial_string THEN 0
    ELSE 5

PureTool ==
    /\ pf_in.op = "tool"
    /\ ~pf_out.done
    /\ pf_out' = [done |-> TRUE, res |-> Ok([code |-> main(pf_in.value)])]
    /\ UNCHANGED <<pf_in>>
    /\ UNCHANGED restOfPure

-----------------------------------------------------------------------------
(* The connections of a server interface.  A ServerConn is named by the     *)
(* number of the accept that made it; its bufferevent runs the three static *)
(* callbacks for as long as the object lives, that is, while it is in       *)
(* iface->connections.                                                      *)

MaxConns == 3
ConnIds == 1..MaxConns

NoCallback == [conn |-> 0, cb |-> "none", how |-> "ok", threw |-> FALSE, unwound |-> FALSE,
               before |-> <<>>]

ConnIdle ==
    /\ connections = <<>>
    /\ nconn = 0
    /\ removals = [c \in ConnIds |-> 0]
    /\ asserted = FALSE
    /\ dispatched = NoCallback

InList(list, c) == \E i \in 1..Len(list) : list[i] = c

\* trash.splice(trash.end(), iface->connections, it); break;
RECURSIVE spliceFirst(_, _)
spliceFirst(list, this) ==
    IF list = <<>> THEN <<>>
    ELSE IF Head(list) = this THEN Tail(list)
    ELSE <<Head(list)>> \o spliceFirst(Tail(list), this)

\* A cleanup() that leaves the list as it is
cleanup_Keep(list, this) == [list |-> list, found |-> InList(list, this)]

\* ServerConn::cleanup: the node of this connection moves to trash, which is
\* destroyed on return, and with it the connection; found is !trash.empty()
cleanup(list, this) == [list |-> spliceFirst(list, this), found |-> InList(list, this)]

\* How the body of a callback ends: it returns with bev set, it returns
\* after bev.reset() (a protocol fault, a closing event), it throws a
\* std::exception, or it throws after a handler has reset bev
BodyEnds(cb) ==
    CASE cb = "read" -> {"ok", "disconnect", "throw", "reset_throw"}
      [] cb = "write" -> {"ok", "throw"}
      [] cb = "event" -> {"ok", "disconnect", "throw"}

\* ServIface::onConnS: a ServerConn is added at the end of the list, unless
\* the peer is not IPv4 or the constructor throws
onConnS(ipv4, throws) ==
    /\ nconn < MaxConns
    /\ nconn' = nconn + 1
    /\ connections' = IF ipv4 /\ ~throws THEN Append(connections, nconn + 1) ELSE connections
    /\ dispatched' = NoCallback
    /\ UNCHANGED <<removals, asserted>>
    /\ UNCHANGED restOfConn

\* bevReadS, bevWriteS, bevEventS: the body runs inside try; a body that
\* ends with bev reset calls cleanup() itself (if(!bev) cleanup()), and the
\* catch clause for std::exception calls cleanup() and returns
callbackS(conn, cb, how) ==
    /\ InList(connections, conn)
    /\ how \in BodyEnds(cb)
    /\ LET threw == how \in {"throw", "reset_throw"}
           cleans == threw \/ how = "disconnect"
           r == IF cleans THEN cleanup(connections, conn)
                          ELSE [list |-> connections, found |-> TRUE]
       IN  /\ connections' = r.list
           /\ removals' = IF cleans /\ r.found
                          THEN [removals EXCEPT ![conn] = @ + 1] ELSE removals
           /\ asserted' = (asserted \/ ~r.found)
           /\ dispatched' = [conn |-> conn, cb |-> cb, how |-> how, threw |-> threw,
                             unwound |-> FALSE, before |-> connections]
    /\ UNCHANGED nconn
    /\ UNCHANGED restOfConn

bevReadS(conn, how) == callbackS(conn, "read", how)

bevWriteS(conn, how) == callbackS(conn, "write", how)

bevEventS(conn, how) == callbackS(conn, "event", how)

-----------------------------------------------------------------------------
(* The subscription of one CertStatusManager.  The CMS posts updates, which *)
(* are numbered in the order of the posts; the subscription queues them and *)
(* schedules the event callback when its queue becomes not empty; the event *)
(* handler of CertStatusManager::subscribe pops from the queue.             *)

MaxPosts == 4

SubIdle ==
    /\ sub_queue = <<>>
    /\ sub_event = FALSE
    /\ sub_status = 0
    /\ sub_posts = 0
    /\ sub_last = 0
    /\ sub_calls = <<>>

\* The times the handler calls sub.pop() in one event: once
popsPerEvent_UntilEmpty(queue) == Len(queue)

\* auto update = sub.pop(); if (update) { ... }
popsPerEvent(queue) == IF queue = <<>> THEN 0 ELSE 1

\* postCertificateStatus: an update arrives in the queue of the subscriber;
\* verifies says whether PVACertificateStatus(update) will throw
SubPost(verifies) ==
    /\ sub_posts < MaxPosts
    /\ sub_posts' = sub_posts + 1
    /\ sub_queue' = Append(sub_queue, [n |-> sub_posts + 1, verifies |-> verifies])
    /\ sub_event' = (sub_event \/ sub_queue = <<>>)
    /\ sub_last' = IF verifies THEN sub_posts + 1 ELSE sub_last
    /\ UNCHANGED <<sub_status, sub_calls>>
    /\ UNCHANGED restOfSub

\* The status stored and the calls made after the handler has worked
\* through the updates it popped
RECURSIVE handled(_, _, _)
handled(updates, status, calls) ==
    IF updates = <<>> THEN [status |-> status, calls |-> calls]
    ELSE LET update == Head(updates)
         IN  IF update.verifies
             THEN handled(Tail(updates), update.n, Append(calls, update.n))
             ELSE handled(Tail(updates), status, calls)

\* The event handler, lines 146-168
SubEvent ==
    /\ sub_event
    /\ sub_event' = FALSE
    /\ LET k == popsPerEvent(sub_queue)
           r == handled(SubSeq(sub_queue, 1, k), sub_status, sub_calls)
       IN  /\ sub_queue' = SubSeq(sub_queue, k + 1, Len(sub_queue))
           /\ sub_status' = r.status
           /\ sub_calls' = r.calls
    /\ UNCHANGED <<sub_posts, sub_last>>
    /\ UNCHANGED restOfSub

-----------------------------------------------------------------------------
(* CertStatusManager::waitForStatus.  Real time is counted in sleeps of     *)
(* 500 ms; time(nullptr) is the whole seconds of it.  The event handler of  *)
(* the subscription stores statuses in status_ while the call runs.         *)

MaxWaitClock == 9

WaitIdle ==
    /\ wait_pc = "idle"
    /\ wait_clock = 0
    /\ wait_start = 0
    /\ wait_status = "none"
    /\ wait_sleeps = 0
    /\ wait_ret = "none"

\* time(nullptr)
time(clock) == clock \div 2

\* A wait without a time limit
waitGoesOn_NoLimit(status, t, start) == status # "valid"

\* (!status_ || !status_->isValid()) && time(nullptr) < start + 3
waitGoesOn(status, t, start) == status # "valid" /\ t < start + 3

\* Time passes before the call
WaitTick ==
    /\ wait_pc = "idle"
    /\ wait_clock < 1
    /\ wait_clock' = wait_clock + 1
    /\ UNCHANGED <<wait_pc, wait_start, wait_status, wait_sleeps, wait_ret>>
    /\ UNCHANGED restOfWait

\* The event handler stores an update: status_ = make_shared(status_update)
WaitDeliver(status) ==
    /\ wait_pc # "returned"
    /\ status # wait_status
    /\ wait_status' = status
    /\ UNCHANGED <<wait_pc, wait_clock, wait_start, wait_sleeps, wait_ret>>
    /\ UNCHANGED restOfWait

\* auto start(time(nullptr));
WaitCall ==
    /\ wait_pc = "idle"
    /\ wait_start' = time(wait_clock)
    /\ wait_pc' = "while"
    /\ UNCHANGED <<wait_clock, wait_status, wait_sleeps, wait_ret>>
    /\ UNCHANGED restOfWait

\* The test of the while loop, and return status_ when it fails
WaitTest ==
    /\ wait_pc = "while"
    /\ IF waitGoesOn(wait_status, time(wait_clock), wait_start)
       THEN wait_pc' = "dispatch" /\ wait_ret' = wait_ret
       ELSE wait_pc' = "returned" /\ wait_ret' = wait_status
    /\ UNCHANGED <<wait_clock, wait_start, wait_status, wait_sleeps>>
    /\ UNCHANGED restOfWait

\* loop.dispatch([]() {});
WaitDispatch ==
    /\ wait_pc = "dispatch"
    /\ wait_pc' = "sleep"
    /\ UNCHANGED <<wait_clock, wait_start, wait_status, wait_sleeps, wait_ret>>
    /\ UNCHANGED restOfWait

\* std::this_thread::sleep_for(std::chrono::milliseconds(500));
WaitSleep ==
    /\ wait_pc = "sleep"
    /\ wait_clock < MaxWaitClock
    /\ wait_clock' = wait_clock + 1
    /\ wait_sleeps' = wait_sleeps + 1
    /\ wait_pc' = "while"
    /\ UNCHANGED <<wait_start, wait_status, wait_ret>>
    /\ UNCHANGED restOfWait

-----------------------------------------------------------------------------
(* The channels of one ServerConn: handle_CreateChan, handle_DestroyChan.   *)
(* CID and SID are uint32_t; they are kept with a width of two bits, so     *)
(* that nextSID wraps and the table fills.                                  *)

NumIds == 4
MaxCount == 2

Ids == 0..(NumIds - 1)

\* uint32_t(-1), the largest id: 0xffffffff
MaxId == NumIds - 1

NoChan == NumIds

NoReply == [op |-> "none"]

ChanIdle ==
    /\ chanByCID = [cid \in Ids |-> NoChan]
    /\ chanBySID = [sid \in Ids |-> NoChan]
    /\ nextSID = 0
    /\ chan_bev = TRUE
    /\ chan_reply = NoReply
    /\ chan_asserted = FALSE

\* map.size()
size(map) == Cardinality({k \in Ids : map[k] # NoChan})

\* map.find(k) != map.end()
found(map, k) == map[k] # NoChan

\* do { sid = nextSID++; } while(chanBySID.find(sid)!=chanBySID.end());
\* the table is never full here, so a free SID is met within NumIds steps
RECURSIVE allocSID(_, _)
allocSID(bySID, next) ==
    IF found(bySID, next)
    THEN allocSID(bySID, (next + 1) % NumIds)
    ELSE [sid |-> next, nextSID |-> (next + 1) % NumIds]

\* A duplicate check that is left out
reusesCID_Unchecked(byCID, cid) == FALSE

\* chanByCID.find(cid)!=chanByCID.end()
reusesCID(byCID, cid) == found(byCID, cid)

\* One round of the loop of handle_CreateChan over the state st, for the
\* entry e: its cid, and whether a Source returns a handler for its name
CreateOne(st, e) ==
    LET full == size(st.byCID) = MaxId \/ size(st.bySID) = MaxId
        reused == reusesCID(st.byCID, e.cid)
        sts1 == IF full THEN "Error" ELSE "Ok"
        sts2 == IF sts1 = "Ok" /\ reused THEN "Fatal" ELSE sts1
        handler == sts2 = "Ok" /\ e.handler
        a == allocSID(st.bySID, st.nextSID)
        \* emplace inserts nothing when the key is present
        ins1 == ~found(st.bySID, a.sid)
        ins2 == ~found(st.byCID, e.cid)
        sts3 == IF sts2 = "Ok" /\ ~handler THEN "Fatal" ELSE sts2
    IN  IF handler
        THEN [byCID |-> IF ins2 THEN [st.byCID EXCEPT ![e.cid] = a.sid] ELSE st.byCID,
              bySID |-> IF ins1 THEN [st.bySID EXCEPT ![a.sid] = e.cid] ELSE st.bySID,
              nextSID |-> a.nextSID,
              asserted |-> st.asserted \/ ~(ins1 /\ ins2),
              reply |-> [op |-> "CreateChan", sid |-> a.sid, sts |-> sts3,
                         reused |-> reused, full |-> full, created |-> TRUE]]
        ELSE [st EXCEPT !.reply = [op |-> "CreateChan", sid |-> MaxId,
                                   sts |-> sts3, reused |-> reused, full |-> full,
                                   created |-> FALSE]]

\* for(auto i : range(count)) { ... }
RECURSIVE CreateAll(_, _)
CreateAll(st, entries) ==
    IF entries = <<>> THEN st
    ELSE CreateAll(CreateOne(st, Head(entries)), Tail(entries))

\* ServerConn::handle_CreateChan for a message with the decodable entries
\* `entries`; truncated: the message ends before its count is reached
handle_CreateChan(entries, truncated) ==
    /\ chan_bev
    /\ LET st == CreateAll([byCID |-> chanByCID, bySID |-> chanBySID, nextSID |-> nextSID,
                            asserted |-> chan_asserted, reply |-> chan_reply], entries)
       IN  /\ chanByCID' = st.byCID
           /\ chanBySID' = st.bySID
           /\ nextSID' = st.nextSID
           /\ chan_asserted' = st.asserted
           /\ chan_reply' = st.reply
    /\ chan_bev' = ~truncated
    /\ UNCHANGED restOfChan

\* ServerConn::handle_DestroyChan; good: the message has both ids
handle_DestroyChan(sid, cid, good) ==
    /\ chan_bev
    /\ IF good /\ found(chanBySID, sid)
       THEN LET chan_cid == chanBySID[sid]
                n == IF found(chanByCID, chan_cid) THEN 1 ELSE 0
            IN  /\ chanByCID' = [chanByCID EXCEPT ![chan_cid] = NoChan]
                /\ chan_asserted' = (chan_asserted \/ n # 1)
                /\ chanBySID' = [chanBySID EXCEPT ![sid] = NoChan]
                /\ chan_reply' = [op |-> "DestroyChan", sid |-> sid]
       ELSE UNCHANGED <<chanByCID, chanBySID, chan_asserted, chan_reply>>
    /\ chan_bev' = good
    /\ UNCHANGED nextSID
    /\ UNCHANGED restOfChan

-----------------------------------------------------------------------------
(* ServerConn::bevRead: the messages in the input buffer are taken one by   *)
(* one; the bodies of the segments of a message are gathered in segBuf and  *)
(* handed to the handler of the command with the last one.  A message is    *)
(* given by what its header says: a header that does not decode, a control  *)
(* message, a message whose body has not arrived, or an application message *)
(* with its segment flags, its command, and whether its handler resets bev. *)

MaxRx == 2
MaxSegs == 3

Segs == {"none", "first", "mid", "last"}

KnownCmds == {"Echo", "CreateChan"}

Cmds == KnownCmds \cup {"0x7f"}

RxMessages ==
    [kind : {"fault", "control", "partial"}, seg : {"none"}, cmd : {"Echo"}, resets : {FALSE}]
    \cup [kind : {"app"}, seg : Segs, cmd : Cmds, resets : BOOLEAN]

NoEvent == [outcome |-> "none"]

SegIdle ==
    /\ expectSeg = FALSE
    /\ segCmd = "0xff"
    /\ segBuf = <<>>
    /\ seg_bev = TRUE
    /\ seg_event = NoEvent

\* bool continuation = seg&pva_flags::SegLast; true for mid or last
continuation(seg) == seg \in {"mid", "last"}

\* A test that does not compare the commands
violation_AnyCmd(cont, expect, cmd, inProgress) == cont # expect

\* (continuation ^ expectSeg) || (continuation && header[3]!=segCmd)
violation(cont, expect, cmd, inProgress) == (cont # expect) \/ (cont /\ cmd # inProgress)

\* One round of the loop of bevRead for the message m, from the state st;
\* go: the loop goes on
bevRead_One(st, m) ==
    IF m.kind = "fault" THEN [st EXCEPT !.bev = FALSE, !.go = FALSE]
    ELSE IF m.kind = "control" THEN st
    ELSE IF m.kind = "partial" THEN [st EXCEPT !.go = FALSE]
    ELSE
    LET buf == Append(st.segBuf, m.seg)
        taken == [seg |-> m.seg, cmd |-> m.cmd, expectSeg |-> st.expectSeg, segCmd |-> st.segCmd]
    IN  IF violation(continuation(m.seg), st.expectSeg, m.cmd, st.segCmd)
        THEN [st EXCEPT !.segBuf = buf, !.bev = FALSE, !.go = FALSE,
                        !.event = taken @@ [outcome |-> "violation", body |-> <<>>]]
        ELSE LET cmd == IF m.seg \in {"none", "first"} THEN m.cmd ELSE st.segCmd
             IN  IF m.seg \in {"none", "last"}
                 THEN [expectSeg |-> FALSE, segCmd |-> cmd, segBuf |-> <<>>,
                       bev |-> IF cmd \in KnownCmds THEN ~m.resets ELSE TRUE,
                       go |-> IF cmd \in KnownCmds THEN ~m.resets ELSE TRUE,
                       event |-> taken @@ [outcome |-> IF cmd \in KnownCmds
                                                    THEN "handled" ELSE "ignored",
                                        body |-> buf]]
                 ELSE [st EXCEPT !.expectSeg = IF m.seg = "first" THEN TRUE ELSE @,
                                 !.segCmd = cmd, !.segBuf = buf,
                                 !.event = taken @@ [outcome |-> "stored", body |-> <<>>]]

\* while(bev && evbuffer_get_length(rx)>=8) { ... }
RECURSIVE bevRead_Loop(_, _)
bevRead_Loop(st, rx) ==
    IF rx = <<>> \/ ~st.go THEN st
    ELSE bevRead_Loop(bevRead_One(st, Head(rx)), Tail(rx))

\* ServerConn::bevRead with the messages rx in the input buffer
bevRead(rx) ==
    /\ seg_bev
    /\ rx # <<>>
    /\ LET st == bevRead_Loop([expectSeg |-> expectSeg, segCmd |-> segCmd, segBuf |-> segBuf,
                               bev |-> TRUE, go |-> TRUE, event |-> seg_event], rx)
       IN  /\ Len(st.segBuf) <= MaxSegs
           /\ expectSeg' = st.expectSeg
           /\ segCmd' = st.segCmd
           /\ segBuf' = st.segBuf
           /\ seg_bev' = st.bev
           /\ seg_event' = st.event
    /\ UNCHANGED restOfSeg

-----------------------------------------------------------------------------
(* The specification of a TLS context with its peers and the CMS *)

MainInit ==
    /\ now = TickSecs
    /\ peer_statuses = [s \in Serials |-> NoPeerStatus]
    /\ cms = [s \in Serials |-> PENDING]
    /\ mq = [s \in Serials |-> <<>>]
    /\ vpc = "idle"
    /\ vcert = NoCert
    /\ vget = NoGet
    /\ vghost = NoGhost
    /\ revoked_delivered = {}
    /\ corrupt_dropped = {}
    /\ exited = FALSE
    /\ ev = NoEv
    /\ last_fn = [s \in Serials |-> "none"]

Init ==
    /\ MainInit
    /\ status_check_enabled \in BOOLEAN
    /\ PureIdle
    /\ ThreadsIdle
    /\ CmsIdle
    /\ PublishIdle
    /\ ConnIdle
    /\ SubIdle
    /\ WaitIdle
    /\ ChanIdle
    /\ SegIdle

\* The step after an event: the record of the event is cleared and nothing
\* else changes, so every property reads an event in the state it led to.
EventObserved ==
    /\ ev # NoEv
    /\ ev' = NoEv
    /\ UNCHANGED <<now, status_check_enabled, peer_statuses, cms, mq, vpc, vcert, vget, vghost,
                   revoked_delivered, corrupt_dropped, exited>>
    /\ UNCHANGED <<restOfMain, last_fn>>

\* Connection set-up subscribes to a peer's status where the context checks
\* status; the TLS library calls ossl_verify with the error it found, if any.
Next ==
    \/ EventObserved
    \/ /\ ev = NoEv
       /\ ~exited
       /\ \/ \E cert \in Certs : ossl_verify(1, cert, X509_V_OK)
          \/ \E cert \in Certs, err \in VerifyErrors : ossl_verify(0, cert, err)
          \/ CmsGetRespond
          \/ \E tamper \in Tampers : \E junk \in Indeterminate(tamper \in {"strip", "degraded"}) :
                ossl_verify_fetched(tamper, junk)
          \/ ossl_verify_timeout
          \/ \E cert \in Certs, connects \in BOOLEAN :
                status_check_enabled /\ subscribeToCertStatus(cert, connects)
          \/ \E serial \in Serials : CmsPost(serial)
          \/ \E serial \in Serials, tamper \in Tampers :
                \E junk \in Indeterminate(tamper \in {"strip", "degraded"}) :
                   MonitorEvent(serial, tamper, junk)
          \/ \E serial \in Serials, new \in CertStatuses : CmsSetStatus(serial, new)
          \/ Tick

Spec == Init /\ [][Next]_vars

-----------------------------------------------------------------------------
(* The specification of the codec and the constructors *)

InitPure ==
    /\ MainInit
    /\ status_check_enabled = TRUE
    /\ ThreadsIdle
    /\ CmsIdle
    /\ PublishIdle
    /\ ConnIdle
    /\ SubIdle
    /\ WaitIdle
    /\ ChanIdle
    /\ SegIdle
    /\ pf_in \in ParseInputs \cup ValueInputs \cup PvaInputs \cup DefaultInputs
                \cup UnsubscribeInputs \cup StapleInputs \cup CreateInputs
                \cup RevokeInputs \cup UriInputs
                \cup ToolInputs \cup CertIdInputs \cup DateInputs
    /\ pf_out = NoPureResult

NextPure ==
    \/ PureParse \/ PureFromValue \/ PureFromPva \/ PureDefault
    \/ PureUnsubscribe \/ PureStaple \/ PureCreate
    \/ PureRevoke \/ PureUri \/ PureTool \/ PureCertId
    \/ PureDate

SpecPure == InitPure /\ [][NextPure]_vars

-----------------------------------------------------------------------------
(* The specification of the threads of a TLS context *)

InitThreads ==
    /\ MainInit
    /\ status_check_enabled = TRUE
    /\ PureIdle
    /\ ThreadsIdle
    /\ CmsIdle
    /\ PublishIdle
    /\ ConnIdle
    /\ SubIdle
    /\ WaitIdle
    /\ ChanIdle
    /\ SegIdle

NextThreads ==
    \/ T_VerifyRead \/ T_VerifyGet \/ T_VerifyStore \/ T_VerifyReturn
    \/ T_SubscribeEntry \/ T_SubscribeCall \/ T_SubscribeAssign
    \/ T_Unsubscribe \/ T_Teardown
    \/ H_Begin \/ H_Verify \/ H_Guard \/ H_Read \/ H_Store \/ H_UnGuard
    \/ H_Fn \/ H_FnReenter \/ H_FnLeave \/ H_ReGuard \/ H_Release \/ H_End

SpecThreads == InitThreads /\ [][NextThreads]_vars

-----------------------------------------------------------------------------
(* The specification of the certs table of the CMS *)

InitCms ==
    /\ MainInit
    /\ status_check_enabled = TRUE
    /\ PureIdle
    /\ ThreadsIdle
    /\ CmsIdle
    /\ PublishIdle
    /\ ConnIdle
    /\ SubIdle
    /\ WaitIdle
    /\ ChanIdle
    /\ SegIdle

NextCms ==
    \/ \E serial \in CmsSerials, not_before \in CmsTimes, not_after \in CmsTimes,
          require_approval \in BOOLEAN :
          onCreateCertificate(serial, not_before, not_after, require_approval)
    \/ \E serial \in CmsSerials : CmsApprove(serial)
    \/ \E serial \in CmsSerials : CmsDeny(serial)
    \/ \E serial \in CmsSerials : CmsRevoke(serial)
    \/ CmsSweep
    \/ CmsTick

SpecCms == InitCms /\ [][NextCms]_vars

-----------------------------------------------------------------------------
(* The specification of the CMS service: commits and posts *)

InitPublish ==
    /\ MainInit
    /\ status_check_enabled = TRUE
    /\ PureIdle
    /\ ThreadsIdle
    /\ CmsIdle
    /\ PublishIdle
    /\ ConnIdle
    /\ SubIdle
    /\ WaitIdle
    /\ ChanIdle
    /\ SegIdle

NextPublish ==
    \/ \E serial \in PubSerials, not_before \in CmsTimes, not_after \in CmsTimes,
          require_approval \in BOOLEAN :
          PubCreate(serial, not_before, not_after, require_approval)
    \/ \E serial \in PubSerials : PubApprove(serial)
    \/ \E serial \in PubSerials : PubDeny(serial)
    \/ \E serial \in PubSerials : PubRevoke(serial)
    \/ PubSweep
    \/ \E serial \in PubSerials : PubPost(serial)
    \/ PubCrash
    \/ PubRestart
    \/ PubTick

SpecPublish == InitPublish /\ [][NextPublish]_vars

\* The status monitor runs periodically, posts are made, a stopped process
\* is started again and time passes
SpecPublishLive ==
    /\ SpecPublish
    /\ WF_vars(PubSweep)
    /\ WF_vars(\E serial \in PubSerials : PubPost(serial))
    /\ WF_vars(PubRestart)
    /\ WF_vars(PubTick)

-----------------------------------------------------------------------------
(* The specification of a server interface and its connections *)

InitConn ==
    /\ MainInit
    /\ status_check_enabled = TRUE
    /\ PureIdle
    /\ ThreadsIdle
    /\ CmsIdle
    /\ PublishIdle
    /\ ConnIdle
    /\ SubIdle
    /\ WaitIdle
    /\ ChanIdle
    /\ SegIdle

NextConn ==
    \/ \E ipv4 \in BOOLEAN, throws \in BOOLEAN : onConnS(ipv4, throws)
    \/ \E conn \in ConnIds, how \in BodyEnds("read") : bevReadS(conn, how)
    \/ \E conn \in ConnIds, how \in BodyEnds("write") : bevWriteS(conn, how)
    \/ \E conn \in ConnIds, how \in BodyEnds("event") : bevEventS(conn, how)

SpecConn == InitConn /\ [][NextConn]_vars

-----------------------------------------------------------------------------
(* The specification of a status subscription *)

InitSub ==
    /\ MainInit
    /\ status_check_enabled = TRUE
    /\ PureIdle
    /\ ThreadsIdle
    /\ CmsIdle
    /\ PublishIdle
    /\ ConnIdle
    /\ SubIdle
    /\ WaitIdle
    /\ ChanIdle
    /\ SegIdle

NextSub ==
    \/ \E verifies \in BOOLEAN : SubPost(verifies)
    \/ SubEvent

SpecSub == InitSub /\ [][NextSub]_vars

\* A scheduled event callback runs
SpecSubLive == SpecSub /\ WF_vars(SubEvent)

-----------------------------------------------------------------------------
(* The specification of a call of waitForStatus *)

InitWait ==
    /\ MainInit
    /\ status_check_enabled = TRUE
    /\ PureIdle
    /\ ThreadsIdle
    /\ CmsIdle
    /\ PublishIdle
    /\ ConnIdle
    /\ SubIdle
    /\ WaitIdle
    /\ ChanIdle
    /\ SegIdle

NextWait ==
    \/ WaitTick
    \/ \E status \in {"none", "invalid", "valid"} : WaitDeliver(status)
    \/ WaitCall
    \/ WaitTest
    \/ WaitDispatch
    \/ WaitSleep

SpecWait == InitWait /\ [][NextWait]_vars

\* The calling thread runs
SpecWaitLive ==
    /\ SpecWait
    /\ WF_vars(WaitTest)
    /\ WF_vars(WaitDispatch)
    /\ WF_vars(WaitSleep)

-----------------------------------------------------------------------------
(* The specification of the channels of one server connection *)

ChanEntries == [cid : Ids, handler : BOOLEAN]

ChanMessages == UNION {[1..n -> ChanEntries] : n \in 0..MaxCount}

InitChan ==
    /\ MainInit
    /\ status_check_enabled = TRUE
    /\ PureIdle
    /\ ThreadsIdle
    /\ CmsIdle
    /\ PublishIdle
    /\ ConnIdle
    /\ SubIdle
    /\ WaitIdle
    /\ ChanIdle
    /\ SegIdle

NextChan ==
    \/ \E entries \in ChanMessages, truncated \in BOOLEAN : handle_CreateChan(entries, truncated)
    \/ \E sid \in Ids, cid \in Ids, good \in BOOLEAN : handle_DestroyChan(sid, cid, good)

SpecChan == InitChan /\ [][NextChan]_vars

-----------------------------------------------------------------------------
(* The specification of the input of one server connection *)

InitSeg ==
    /\ MainInit
    /\ status_check_enabled = TRUE
    /\ PureIdle
    /\ ThreadsIdle
    /\ CmsIdle
    /\ PublishIdle
    /\ ConnIdle
    /\ SubIdle
    /\ WaitIdle
    /\ ChanIdle
    /\ SegIdle

NextSeg ==
    \E rx \in UNION {[1..n -> RxMessages] : n \in 1..MaxRx} : bevRead(rx)

SpecSeg == InitSeg /\ [][NextSeg]_vars

-----------------------------------------------------------------------------
(* Properties *)

SelfSignedErrors == {X509_V_ERR_UNABLE_TO_GET_ISSUER_CERT_LOCALLY,
                     X509_V_ERR_DEPTH_ZERO_SELF_SIGNED_CERT,
                     X509_V_ERR_SELF_SIGNED_CERT_IN_CHAIN}

\* The cache entry of the certificate the last step was about
Cached == peer_statuses[ev.serial].status

\* fresh and good, spelled out on the fields of a status
FreshGood(st) == st.status_valid_until_date > now /\ st.ocsp_status = OCSP_CERTSTATUS_GOOD

\* ossl_verify returned for a certificate that carries the status extension
MonitoredReturn == ev.type = "return" /\ ev.ext # "none"

C2_RejectAfterRevoked ==
    (MonitoredReturn /\ ev.after_revoked) => ev.result = 0

\* C3 as stated, in the case it names: after a monitor update with corrupted
\* ocsp_bytes, the next handshake presenting the certificate is rejected
\* even though the cache still holds an earlier status that is fresh.
C3_RejectAfterCorruptUpdate ==
    (MonitoredReturn /\ ev.after_corrupt /\ ev.cached_fresh) => ev.result = 0

\* C4 as stated: a malformed token, an unverifiable signer, an expired
\* window, a missing extension or a timeout met by ossl_verify makes it
\* return 0.
C4_FailureReturnsZero ==
    (ev.type \in {"return", "exit"} /\ ev.failure # "none")
        => (ev.type = "return" /\ ev.result = 0)

C8_SelfSignedAccepted ==
    (ev.type = "return" /\ ev.preverify_ok = 0)
        => (ev.result = 1 <=> ev.err \in SelfSignedErrors)

\* C9: for a monitored certificate in a context with status checking
\* enabled, ossl_verify decides without a fetch exactly when the cache holds
\* a fresh status, accepting iff it is GOOD; otherwise it sends a GET, puts
\* the fetched status in the cache and decides on it, and returns 0 when
\* the GET fails.
C9_CacheThenGet ==
    /\ (MonitoredReturn /\ status_check_enabled /\ ev.preverify_ok = 1 /\ ~ev.fetched)
           => /\ Cached # <<>>
              /\ Cached[1].status_valid_until_date > now
              /\ ev.result = 1 <=> Cached[1].ocsp_status = OCSP_CERTSTATUS_GOOD
    /\ ev.type = "get"
           => (Cached = <<>> \/ Cached[1].status_valid_until_date <= now)
    /\ (MonitoredReturn /\ ev.fetched /\ ev.accepted)
           => /\ Cached # <<>>
              /\ ev.tamper = "none"
                    => /\ Cached[1].status = ev.msg.status
                       /\ Cached[1].ocsp_status = OcspOf(ev.msg.status)
                       /\ Cached[1].status_valid_until_date
                             = ev.msg.t + cert_status_validity_mins * 60
              /\ ev.result = 1 <=> FreshGood(Cached[1])
    /\ (MonitoredReturn /\ ev.fetched /\ ~ev.accepted) => ev.result = 0

\* C9: a cached status went stale, was fetched again and the certificate
\* accepted on the new one
C9_Witness ==
    /\ MonitoredReturn /\ ev.fetched /\ ~ev.absent /\ ev.accepted
    /\ ev.result = 1

\* C10 as stated: while ossl_verify waits for the GET of a certificate that
\* had no cache entry, a subscription for the certificate exists and no more
\* than 3 seconds have passed since the call began.
C10_SubscribedAndBounded ==
    (vpc = "get" /\ vghost.absent)
        => (peer_statuses[vcert.serial].cert_status_manager /\ ~vghost.overdue)

\* C6 as stated: every CertificateStatus constructed from a status value,
\* by the convenience constructor or by default has ocsp_status GOOD iff
\* status VALID, ocsp_status REVOKED iff status REVOKED, and with
\* ocsp_status UNKNOWN a status that is neither VALID nor REVOKED.
C6_StatusMatchesOcsp ==
    (pf_out.done /\ pf_out.res.ok /\ pf_in.op \in {"value", "pva", "default"})
        => LET st == pf_out.res.val
           IN  /\ st.ocsp_status = OCSP_CERTSTATUS_GOOD <=> st.status = VALID
               /\ st.ocsp_status = OCSP_CERTSTATUS_REVOKED <=> st.status = REVOKED
               /\ st.ocsp_status = OCSP_CERTSTATUS_UNKNOWN
                     => st.status \notin {VALID, REVOKED}

\* C7 as stated: a token signed at T with next_update T + validity parses
\* at every time in [T, T + validity] and fails to parse at every time
\* after T + validity + 5 seconds.
C7_ParseWindow ==
    (pf_in.op = "parse" /\ pf_out.done)
        => LET r == pf_in.value.ocsp_response[1]
               asSigned == /\ r.wellformed /\ r.signer_ok
                           /\ r.ocsp_status = OCSP_CERTSTATUS_REVOKED => r.revocation_time # 0
           IN  asSigned
                  => /\ (r.this_update <= pf_in.t /\ pf_in.t <= r.next_update)
                         => pf_out.res.ok
                     /\ pf_in.t > r.next_update + 5 => ~pf_out.res.ok

\* C11: for a certificate without the status-PV extension, ossl_verify
\* called with preverify_ok set returns preverify_ok, sends no GET, starts
\* no subscription and leaves the peer status cache as it was.
C11_UnmonitoredFrame ==
    [][(ev'.type = "return" /\ ev'.ext = "none" /\ ev'.preverify_ok # 0)
          => /\ ev'.result = ev'.preverify_ok
             /\ ~ev'.fetched
             /\ vpc = "idle" /\ vpc' = "idle" /\ vget' = NoGet
             /\ peer_statuses' = peer_statuses]_vars

\* C11: a certificate without the extension is accepted in a context with
\* status checking enabled whose cache holds a REVOKED status for its serial
C11_Witness ==
    /\ ev.type = "return" /\ ev.ext = "none" /\ ev.preverify_ok = 1 /\ ev.result = 1
    /\ status_check_enabled
    /\ Cached # <<>> /\ Cached[1].ocsp_status = OCSP_CERTSTATUS_REVOKED

\* C12: for every status update that reaches the subscription callback,
\* the callback stores the update in the cache and calls fn(is_good) if and
\* only if the goodness of the new status differs from the goodness of the
\* entry cached just before (an absent entry is not good); the argument is
\* the new goodness.
C12_NotifyIffGoodnessChanged ==
    [][(ev'.type = "update" /\ ev'.accepted)
          => LET before == peer_statuses[ev'.serial].status
                 after == peer_statuses'[ev'.serial].status
                 was == before # <<>> /\ FreshGood(before[1])
                 is == after # <<>> /\ FreshGood(after[1])
             IN  /\ after # <<>>
                 /\ ev'.tamper = "none"
                       => /\ after[1].status = ev'.msg.status
                          /\ after[1].ocsp_status = OcspOf(ev'.msg.status)
                          /\ after[1].status_valid_until_date
                                = ev'.msg.t + cert_status_validity_mins * 60
                 /\ (ev'.notified # "none") <=> (is # was)
                 /\ ev'.notified = "good" => is
                 /\ ev'.notified = "bad" => ~is]_vars

\* C12: a REVOKED update replaced a good cached status and fn(false) was called
C12_Witness ==
    /\ ev.type = "update" /\ ev.accepted /\ ev.tamper = "none"
    /\ ev.notified = "bad"
    /\ Cached # <<>> /\ Cached[1].ocsp_status = OCSP_CERTSTATUS_REVOKED

-----------------------------------------------------------------------------
(* Properties of the threads of a TLS context *)

\* Positions at which a thread is inside an access to peer_statuses
TlsWrites == {"verify_store", "sub_entry", "sub_assign"}
TlsReads == {"verify_read"}
CbWrites == {"cb_store"}
CbReads == {"cb_read", "fn_cache"}

\* C13: every mutation of the peer status cache (the store of a subscription
\* update, the store of a status fetched by ossl_verify, the entry creation
\* and the assignment in subscribeToCertStatus) happens while the mutating
\* thread holds the mutex of the context, and the two threads are never inside
\* the cache at the same time when one of them is mutating it.
C13_MutationsUnderMutex ==
    /\ tls_pc \in TlsWrites => lock = "tls"
    /\ cb_pc \in CbWrites => lock = "cb"
    /\ ~(/\ tls_pc \in TlsWrites \cup TlsReads
         /\ cb_pc \in CbWrites \cup CbReads
         /\ tls_pc \in TlsWrites \/ cb_pc \in CbWrites)

\* C13, the interleaving itself: the callback stores while the TLS thread is
\* inside the cache
C13_NoSimultaneousAccess ==
    ~(tls_pc \in TlsWrites \cup TlsReads /\ cb_pc \in CbWrites)

\* C14: fn is invoked only after the callback has released the mutex of the
\* context, so an fn that goes back into the cache gets the mutex, and the
\* callback thread holds no mutex once the callback has returned.
C14_FnWithMutexReleased ==
    /\ cb_pc = "fn" => lock = "none"
    /\ cb_pc = "fn_cache" => lock = "cb"
    /\ cb_pc \in {"idle", "early", "handler", "verified", "done"} => lock # "cb"

\* fn has gone back into the cache from inside the callback
C14_Witness ==
    cb_pc = "fn_cache" /\ lock = "cb" /\ car = "alive" /\ mgr.state = "alive"

CarTouching == {"guarded", "cb_read", "cb_store", "fn_cache", "reguarded"}

\* C16: once the context has been torn down and has let go of its managers,
\* no monitor event takes the mutex of the freed context, reads or writes
\* its cache.
C16_NoTouchAfterDrop ==
    car = "freed" => cb_pc \notin CarTouching

\* C16, the part about later events: a handler that starts when the manager
\* is gone returns early and calls nothing.
C16_LaterEventsReturnEarly ==
    [][(cb_pc = "idle" /\ cb_pc' # "idle" /\ mgr.state = "deleted") => cb_pc' = "early"]_vars

\* C17: serverOCSPCallback replaces the staple buffer exactly when the
\* current ocsp_bytes differ, in length or in content, from the bytes
\* stapled before, and after it returns OK the staple buffer holds exactly
\* the current ocsp_bytes.
C17_StapleHoldsCurrent ==
    (pf_out.done /\ pf_in.op = "staple")
        => LET in == pf_in.value
               out == pf_out.res.val
           IN  /\ (in.status_type = -1 /\ in.current.present)
                     => (out.replaced <=> in.cached # in.current)
               /\ out.ret = "OK" => out.cached = in.current

-----------------------------------------------------------------------------
(* Properties of the certs table *)

\* C18: once the stored status of a certificate is REVOKED or EXPIRED no
\* request and no round of the status monitor changes it: a REVOKED or
\* EXPIRED certificate inside its validity window is not moved to VALID and
\* a REVOKED certificate past not_after is not moved to EXPIRED.
C18_RevokedExpiredTerminal ==
    [][\A s \in CmsSerials :
          (certs[s].present /\ certs[s].status \in {REVOKED, EXPIRED})
              => certs'[s] = certs[s]]_vars

\* The status monitor has run over a REVOKED certificate inside its validity
\* window and over a REVOKED certificate past its not_after
C18_Witness ==
    /\ last_op.op = "sweep"
    /\ \E s \in CmsSerials : /\ certs[s].status = REVOKED
                             /\ s \in SQL_CERT_TO_VALID(certs, cnow)
    /\ \E s \in CmsSerials : /\ certs[s].status = REVOKED
                             /\ s \in SQL_CERT_TO_EXPIRED(certs, cnow)

\* C19: updateCertificateStatus changes a row only when its status is in the
\* allowed-prior set, and otherwise fails with IllegalTransition and leaves
\* the table as it was; the second of two consecutive requests to revoke a
\* serial fails and the table is what the first one left.
C19_SetStatusGuarded ==
    [][last_op'.op \in {"approve", "deny", "revoke"}
          => LET s == last_op'.serial
             IN  /\ IF certs[s].status \in last_op'.allowed
                    THEN /\ last_op'.result = "ok"
                         /\ certs' = [certs EXCEPT ![s].status = last_op'.status]
                    ELSE /\ last_op'.result = "IllegalTransition"
                         /\ certs' = certs
                 /\ (last_op'.op = "revoke" /\ last_op'.repeat)
                       => /\ last_op'.result = "IllegalTransition"
                          /\ certs' = certs
                          /\ certs'[s].status = REVOKED]_vars

\* A second request to revoke came right after a successful one and failed
C19_Witness ==
    /\ last_op.op = "revoke" /\ last_op.repeat
    /\ last_op.allowed = {VALID, PENDING, PENDING_APPROVAL}
    /\ last_op.result = "IllegalTransition"
    /\ certs[last_op.serial].status = REVOKED

\* C20: a round of the status monitor moves a PENDING certificate to VALID
\* exactly when now >= not_before, a VALID certificate to EXPIRED exactly
\* when now > not_after, and leaves every other certificate as it is.
C20_SweepWindows ==
    [][last_op'.op = "sweep"
          => \A s \in CmsSerials :
                LET old == certs[s]
                    new == certs'[s]
                IN  old.present =>
                      /\ old.status = PENDING
                            => new.status = IF cnow >= old.not_before THEN VALID ELSE PENDING
                      /\ old.status = VALID
                            => new.status = IF cnow > old.not_after THEN EXPIRED ELSE VALID
                      /\ old.status \notin {PENDING, VALID} => new = old]_vars

\* C20, the boundary alone: at now = not_after a VALID certificate stays
\* VALID in a round of the status monitor.
C20_ValidAtNotAfterStays ==
    [][last_op'.op = "sweep"
          => \A s \in CmsSerials :
                (certs[s].present /\ certs[s].status = VALID /\ cnow = certs[s].not_after)
                    => certs'[s].status = VALID]_vars

-----------------------------------------------------------------------------
(* Properties of the requests to the CMS *)

\* The rows of the store that a request duplicates
Duplicates(in) ==
    {r \in in.store : r.subject = in.ccr.subject \/ r.skid = in.ccr.skid}

\* C21: a CREATE request whose subject or whose subject key identifier
\* matches a row of the store is rejected, as DuplicateSubject or
\* DuplicateKey when it was admitted, and the store and the set of status
\* PVs stay as they were.
C21_DuplicateRejected ==
    (pf_out.done /\ pf_in.op = "create" /\ Duplicates(pf_in.value) # {})
        => LET in == pf_in.value
               out == pf_out.res.val
           IN  /\ out.result # "ok"
               /\ admitted(in.ccr, in.caller)
                     => out.result \in {"DuplicateSubject", "DuplicateKey"}
               /\ (\E r \in in.store : r.subject = in.ccr.subject /\ admitted(in.ccr, in.caller))
                     => out.result = "DuplicateSubject"
               /\ out.store = in.store
               /\ out.pvs = in.pvs

\* An admitted request with a new subject and the key identifier of a row
\* was rejected as DuplicateKey
C21_Witness ==
    /\ pf_out.done /\ pf_in.op = "create"
    /\ pf_out.res.val.result = "DuplicateKey"
    /\ \A r \in pf_in.value.store : r.subject # pf_in.value.ccr.subject
    /\ pf_out.res.val.store = pf_in.value.store /\ pf_in.value.store # {}

-----------------------------------------------------------------------------
(* Properties of the CMS service *)

\* p is a subsequence of q
RECURSIVE IsSubsequence(_, _)
IsSubsequence(p, q) ==
    IF p = <<>> THEN TRUE
    ELSE IF q = <<>> THEN FALSE
    ELSE IF Head(p) = Head(q) THEN IsSubsequence(Tail(p), Tail(q))
    ELSE IsSubsequence(p, Tail(q))

\* C22: for every certificate the statuses posted on its status PV are, in
\* order, a subsequence of the statuses committed to the store so far, so
\* that no post precedes its commit; and the last post of a certificate
\* with nothing pending after it is a status that was committed.
C22_PostedAfterCommit ==
    \A s \in CmsSerials :
        /\ IsSubsequence(posted[s], commits[s])
        /\ posted[s] # <<>> => certs[s].present

\* Two statuses were posted for a certificate and a commit in between was
\* never posted
C22_Witness ==
    \E s \in CmsSerials :
        /\ Len(posted[s]) = 2
        /\ Len(commits[s]) = 3
        /\ posted[s][2] = commits[s][3]
        /\ pending = {}

\* The stored status of a certificate is not the last one posted
Unpublished(s) ==
    certs[s].present /\ (posted[s] = <<>> \/ posted[s][Len(posted[s])] # certs[s].status)

C24_AclBeforeTransition ==
    (pf_out.done /\ pf_in.op = "revoke")
        => LET in == pf_in.value
               out == pf_out.res.val
           IN  /\ out.table # in.table => (in.method = "x509" /\ in.admin)
               /\ ~(in.method = "x509" /\ in.admin)
                     => /\ out.result = "Unauthorized"
                        /\ out.table = in.table
                        /\ ~out.posted

\* An administrator who is not authenticated by x509 asked to revoke a
\* certificate that is already REVOKED and was refused as Unauthorized
C24_Witness ==
    /\ pf_out.done /\ pf_in.op = "revoke"
    /\ pf_in.value.state = "REVOKED" /\ pf_in.value.table[1].status = REVOKED
    /\ pf_in.value.admin /\ pf_in.value.method = "ca"
    /\ pf_out.res.val.result = "Unauthorized"

\* The row a successful CREATE added
NewRows(in, out) == out.store \ in.store

C25_ApprovalExactly ==
    (pf_out.done /\ pf_in.op = "create" /\ pf_out.res.val.result = "ok")
        => LET in == pf_in.value
               approval == in.ccr.auth_type = "basic" /\ in.require_approval[in.ccr.usage]
           IN  \A r \in NewRows(in, pf_out.res.val) :
                  r.status = PENDING_APPROVAL <=> approval

\* C26: a renewal request (auth_type x509) of a caller whose peer
\* certificate has not expired and has the subject of the request is
\* admitted and a new certificate is issued; a renewal of a caller whose
\* certificate is expired or has another subject is rejected and nothing is
\* stored.
C26_RenewalAdmitted ==
    (pf_out.done /\ pf_in.op = "create" /\ pf_in.value.ccr.auth_type = "x509")
        => LET in == pf_in.value
               out == pf_out.res.val
               good == /\ in.caller.present /\ ~in.caller.expired
                       /\ in.caller.subject = in.ccr.subject
           IN  IF good
               THEN out.result = "ok" /\ Cardinality(NewRows(in, out)) = 1
               ELSE out.result # "ok" /\ out.store = in.store

\* C26 for the caller whose own certificate is a row of the store
C26_RenewalOfStoredCertificate ==
    (/\ pf_out.done /\ pf_in.op = "create" /\ pf_in.value.ccr.auth_type = "x509"
     /\ pf_in.value.caller.present /\ ~pf_in.value.caller.expired
     /\ pf_in.value.caller.subject = pf_in.value.ccr.subject
     /\ \E r \in pf_in.value.store : r.subject = pf_in.value.caller.subject /\ r.status = VALID)
        => pf_out.res.val.result = "ok"
-----------------------------------------------------------------------------
(* Properties of the status PV name *)

\* The hexadecimal digits of a byte string, two per byte
RECURSIVE hexOf(_)
hexOf(data) ==
    IF data = <<>> THEN <<>>
    ELSE setw(2, "0", ToBase(Head(data), 16)) \o hexOf(Tail(data))

hex16(serial) == setw(16, "0", ToBase(serial, 16))

issuer_id_from(ski) ==
    LET h == hexOf(ski.data) IN SubSeq(h, 1, IF Len(h) < 8 THEN Len(h) ELSE 8)

\* C27: for an issuer with a Subject Key Identifier the status PV name is
\* "CERT:STATUS:" + issuer_id + ":" + the serial as exactly 16 zero-padded
\* hexadecimal digits, the issuer_id being the first 8 hex characters of
\* the identifier; for an issuer without one the name is an error.
C27_StatusPvName ==
    (pf_out.done /\ pf_in.op = "uri")
        => LET in == pf_in.value
               out == pf_out.res.val
           IN  IF in.ca_cert.present
               THEN /\ ~out.threw
                    /\ out.name = <<"CERT:STATUS", ":">> \o issuer_id_from(in.ca_cert)
                                     \o <<":">> \o hex16(in.serial)
               ELSE out.threw /\ out.name = <<>>

\* The issuer part of C27 alone: the name starts with the root and the first
\* 8 hex characters of the identifier, and no identifier is an error.
C27_IssuerIdPart ==
    (pf_out.done /\ pf_in.op = "uri")
        => LET in == pf_in.value
               out == pf_out.res.val
               head == <<"CERT:STATUS", ":">> \o issuer_id_from(in.ca_cert) \o <<":">>
           IN  IF in.ca_cert.present
               THEN /\ ~out.threw
                    /\ Len(out.name) >= Len(head)
                    /\ SubSeq(out.name, 1, Len(head)) = head
               ELSE out.threw /\ out.name = <<>>

-----------------------------------------------------------------------------
(* Properties of the certificate tool *)

\* The run got as far as waiting for its operation
ToolWaited(in) ==
    /\ ~in.help /\ ~in.show_version
    /\ ~(in.password_flag /\ ~in.cert_file)
    /\ ~(in.cert_file /\ in.action # "STATUS")
    /\ ~in.throws
    /\ ~(in.cert_file /\ in.file_fails)
    /\ ~in.start_fails

\* C28: of the runs that ask for an operation, the tool exits with 0 exactly
\* when the operation completed, whether the certificate was named by
\* cert_id or by file, and with 5 exactly when the user interrupted the wait.
C28_ExitCodes ==
    (pf_out.done /\ pf_in.op = "tool" /\ ~pf_in.value.help /\ ~pf_in.value.show_version)
        => LET in == pf_in.value
               code == pf_out.res.val.code
           IN  /\ code = 0 <=> (ToolWaited(in) /\ in.wait = "completed")
               /\ code = 5 <=> (ToolWaited(in) /\ in.wait = "interrupted")

\* The other codes of C28: 1 on an option error, 2 on incompatible options,
\* 3 on a certificate or file error, 4 on a timeout, 6 on any other error.
C28_ErrorCodes ==
    (pf_out.done /\ pf_in.op = "tool" /\ ~pf_in.value.help)
        => LET in == pf_in.value
               code == pf_out.res.val.code
               option_error == \/ in.show_version /\ in.more_args
                               \/ ~in.show_version /\ in.password_flag /\ ~in.cert_file
               incompatible == ~in.show_version /\ ~option_error
                                  /\ in.cert_file /\ in.action # "STATUS"
               started == ~in.show_version /\ ~option_error /\ ~incompatible /\ ~in.throws
           IN  /\ code = 1 <=> option_error
               /\ code = 2 <=> incompatible
               /\ code = 6 <=> (~in.show_version /\ ~option_error /\ ~incompatible /\ in.throws)
               /\ code = 3 <=> (started /\ ((in.cert_file /\ in.file_fails) \/ in.start_fails))
               /\ code = 4 <=> (ToolWaited(in) /\ in.wait = "timeout")

-----------------------------------------------------------------------------
(* Properties of the connections of a server interface *)

-----------------------------------------------------------------------------
(* Properties of the staple of a handshake *)

\* C30: the status callback runs in the handshakes in which the client asked
\* for a staple; whenever the server holds a current status the callback
\* sets the current ocsp_bytes on the SSL object of the handshake and
\* returns OK, also when the bytes are those of the previous handshake.
C30_StapleAttached ==
    (pf_out.done /\ pf_in.op = "staple" /\ pf_in.t = 1 /\ pf_in.value.current.present)
        => /\ pf_out.res.val.ret = "OK"
           /\ pf_out.res.val.attached = pf_in.value.current

\* The case of C30 with unchanged bytes alone, for the status type the
\* callback goes on with
C30_UnchangedStapleAttached ==
    (/\ pf_out.done /\ pf_in.op = "staple" /\ pf_in.t = 1
     /\ pf_in.value.status_type = -1
     /\ pf_in.value.current.present
     /\ pf_in.value.cached = pf_in.value.current)
        => /\ pf_out.res.val.ret = "OK"
           /\ pf_out.res.val.attached = pf_in.value.current

\* The rest of C30, for the status type the callback goes on with: bytes
\* that changed are set on the SSL object with OK, and without a current
\* status the callback returns a fatal alert and sets nothing.
C30_ChangedOrMissing ==
    (pf_out.done /\ pf_in.op = "staple" /\ pf_in.t = 1 /\ pf_in.value.status_type = -1)
        => LET in == pf_in.value
               out == pf_out.res.val
           IN  /\ ~in.current.present
                     => out.ret = "ALERT_FATAL" /\ out.attached = NullBuffer
               /\ (in.current.present /\ out.replaced)
                     => out.ret = "OK" /\ out.attached = in.current

-----------------------------------------------------------------------------
(* Properties of a status subscription *)

\* C31: after any burst of updates the stored status of the subscriber is
\* eventually the last posted update that verifies, and stays so while no
\* other update is posted: an update queued behind another one is popped
\* and delivered even if no update follows it.
C31_LastUpdateDelivered == <>[](sub_status = sub_last)

\* The queue part of C31 alone: a queued update is eventually popped
C31_QueueDrains == (sub_queue # <<>>) ~> (sub_queue = <<>>)

-----------------------------------------------------------------------------
(* Properties of the event handler of a status subscription *)

\* The value the handler popped in the step that led to this state
PoppedValue == Received(ev.tamper, CmsStatusValue(ev.serial, ev.msg))

C32_FailedUpdateDropped ==
    [][\A serial \in Serials :
          (/\ ev' # NoEv /\ ev'.type = "update" /\ ev'.serial = serial
           /\ LET v == Received(ev'.tamper, CmsStatusValue(serial, ev'.msg))
              IN  /\ v.ocsp_response # <<>>
                  /\ ~(v.ocsp_response[1].wellformed /\ v.ocsp_response[1].signer_ok))
              => /\ ~ev'.accepted
                 /\ ev'.notified = "none"
                 /\ peer_statuses' = peer_statuses]_vars

-----------------------------------------------------------------------------
(* Properties of the on_change notifications *)

\* C33: the notifications fn(b) for one peer serial alternate between good
\* and not good: no notification carries the value of the one before it.
C33_NotificationsAlternate ==
    [][\A serial \in Serials :
          (ev'.type = "update" /\ ev'.serial = serial /\ ev'.notified # "none")
              => ev'.notified # last_fn[serial]]_vars

-----------------------------------------------------------------------------
(* Properties of the names of a certificate *)

\* C34: the PV name the tool builds from a cert_id <issuer>:<serial> is the
\* name embedded in the status extension of the certificate with that
\* issuer and serial.
C34_SameStatusPv ==
    (pf_out.done /\ pf_in.op = "certid")
        => pf_out.res.val.from_id = pf_out.res.val.from_file

\* C34 for the serials of 16 decimal digits and more
C34_LongSerialsAgree ==
    (pf_out.done /\ pf_in.op = "certid" /\ Len(pf_in.value.serial) >= 16)
        => pf_out.res.val.from_id = pf_out.res.val.from_file

-----------------------------------------------------------------------------
(* Properties of the stored status date *)

\* C35: after a successful change of the status of a serial at time T,
\* getCertificateStatus for that serial returns the new status with the
\* status date T.
C35_StatusDateIsChangeTime ==
    (last_op.op \in {"approve", "deny", "revoke"} /\ last_op.result = "ok")
        => LET r == getCertificateStatus(certs, last_op.serial)
           IN  /\ r.found
               /\ r.status = last_op.status
               /\ r.status_date = cnow

\* The status part of C35 alone
C35_StatusIsNewStatus ==
    (last_op.op \in {"approve", "deny", "revoke"} /\ last_op.result = "ok")
        => LET r == getCertificateStatus(certs, last_op.serial)
           IN  r.found /\ r.status = last_op.status

-----------------------------------------------------------------------------
(* Properties of a status value with a token *)

\* The value's date fields are the dates of its token and its status is
\* the one that goes with the token's OCSP status
AsCertified(v) ==
    LET r == v.ocsp_response[1]
    IN  /\ v.ocsp_status_date = r.this_update
        /\ v.ocsp_certified_until = r.next_update
        /\ v.ocsp_revocation_date = r.revocation_time
        /\ \/ r.ocsp_status = OCSP_CERTSTATUS_GOOD /\ v.status = VALID
           \/ r.ocsp_status = OCSP_CERTSTATUS_REVOKED /\ v.status = REVOKED
           \/ r.ocsp_status = OCSP_CERTSTATUS_UNKNOWN /\ v.status \notin {VALID, REVOKED}

\* C36: a status value with a non-empty ocsp_response becomes a
\* CertificateStatus only if its three dates are those certified in the
\* token and its status agrees with the token's OCSP status; on any
\* mismatch the constructor throws and there is no status.
C36_ValueMatchesToken ==
    (pf_out.done /\ pf_in.op = "value" /\ pf_in.value.ocsp_response # <<>>)
        => /\ pf_out.res.ok => AsCertified(pf_in.value)
           /\ ~AsCertified(pf_in.value)
                 => ~pf_out.res.ok /\ pf_out.res.val = NoStatus

\* A VALID value over a good token whose certified-until date is off by a
\* second was refused
C36_Witness ==
    /\ pf_out.done /\ pf_in.op = "value" /\ pf_in.value.ocsp_response # <<>>
    /\ pf_in.value.status = VALID
    /\ pf_in.value.ocsp_response[1].wellformed /\ pf_in.value.ocsp_response[1].signer_ok
    /\ pf_in.value.ocsp_response[1].ocsp_status = OCSP_CERTSTATUS_GOOD
    /\ pf_in.value.ocsp_status_date = pf_in.value.ocsp_response[1].this_update
    /\ pf_in.value.ocsp_certified_until = pf_in.value.ocsp_response[1].next_update + 1
    /\ ~pf_out.res.ok

-----------------------------------------------------------------------------
(* Properties of status dates *)

\* C37: the status-date string of a whole-second time t >= 0 parses back to
\* t, and tmToTimeTUTC gives every UTC calendar date-time, in leap years and
\* century years too, the epoch seconds of the standard conversion.
C37_DateRoundTrip ==
    (pf_out.done /\ pf_in.op = "date")
        => /\ pf_out.res.val.roundtrip.ok
           /\ pf_out.res.val.roundtrip.val = timegm(pf_in.value)
           /\ pf_out.res.val.t = timegm(pf_in.value)

\* The first of March of the century year 2100 went to its string and back
C37_Witness ==
    /\ pf_out.done /\ pf_in.op = "date"
    /\ pf_in.value.tm_year = 200 /\ pf_in.value.tm_mon = 2 /\ pf_in.value.tm_mday = 1
    /\ pf_in.value.tm_hour = 23
    /\ pf_out.res.val.s = <<"Mon", "Mar", <<"0", "1">>, <<"2", "3">>, <<"5", "9">>,
                            <<"5", "9">>, <<"2", "1", "0", "0">>, "UTC">>
    /\ pf_out.res.val.t = [days |-> 47541, secs |-> 86399]

-----------------------------------------------------------------------------
(* Properties of waitForStatus *)

\* C38: a call of waitForStatus returns; a test of the loop that finds a
\* valid status stored, the first one included, returns without a sleep;
\* the call has slept at most 3 seconds in all, and it returns the status
\* stored at its end.
C38_WaitTerminates ==
    /\ (wait_pc = "while") ~> (wait_pc = "returned")
    /\ [](wait_sleeps <= 6)
    /\ [][(wait_pc = "while" /\ wait_status = "valid") => wait_pc' # "dispatch"]_vars
    /\ [][wait_pc' = "returned" => wait_ret' = wait_status]_vars

\* The call returned without a status after 3 seconds
C38_Witness ==
    /\ wait_pc = "returned"
    /\ wait_ret = "none"
    /\ wait_sleeps = 6

-----------------------------------------------------------------------------
(* Properties of the channel tables *)

LiveCIDs == {cid \in Ids : found(chanByCID, cid)}

LiveSIDs == {sid \in Ids : found(chanBySID, sid)}

\* Both tables hold the same channels, and no assert has failed
TablesAgree ==
    /\ ~chan_asserted
    /\ Cardinality(LiveCIDs) = Cardinality(LiveSIDs)
    /\ \A cid \in LiveCIDs : found(chanBySID, chanByCID[cid]) /\ chanBySID[chanByCID[cid]] = cid
    /\ \A c1 \in LiveCIDs, c2 \in LiveCIDs : chanByCID[c1] = chanByCID[c2] => c1 = c2

\* C39: chanByCID and chanBySID describe the same channels, each live CID
\* under a SID of its own whose channel has that cid, no assert fails, and a
\* CreateChan entry that reuses a live CID while the tables are not full
\* creates no channel and is answered with the status Fatal.
C39_TablesAgree ==
    /\ TablesAgree
    /\ (chan_reply.op = "CreateChan" /\ chan_reply.reused /\ ~chan_reply.full)
          => (chan_reply.sts = "Fatal" /\ ~chan_reply.created)

\* C39, as stated: every CreateChan entry that reuses a live CID creates no
\* channel and is answered with the status Fatal.
C39_ReuseIsFatal ==
    /\ TablesAgree
    /\ (chan_reply.op = "CreateChan" /\ chan_reply.reused)
          => (chan_reply.sts = "Fatal" /\ ~chan_reply.created)

\* A live CID was used again, while two channels live and one of them has a
\* SID that differs from its CID
C39_Witness ==
    /\ chan_reply.op = "CreateChan"
    /\ chan_reply.reused
    /\ chan_reply.sts = "Fatal"
    /\ Cardinality(LiveCIDs) = 2
    /\ \E cid \in LiveCIDs : chanByCID[cid] < nextSID /\ chanByCID[cid] # cid

-----------------------------------------------------------------------------
(* Properties of the input of a server connection *)

\* The segment may come now: a continuation while a message with its command
\* is in progress, a first or unsegmented message while none is
InOrder(e) ==
    IF e.seg \in {"mid", "last"}
    THEN e.expectSeg /\ e.cmd = e.segCmd
    ELSE ~e.expectSeg

\* The flags of the segments of one whole message
WholeBodies ==
    {<<"none">>} \cup {<<"first">> \o mids \o <<"last">> :
                          mids \in UNION {[1..n -> {"mid"}] : n \in 0..(MaxSegs + MaxRx)}}

\* C40: for every application message bevRead takes, the gathered body is
\* handed on (to the handler of its command, or dropped for a command
\* without one) exactly when the message is unsegmented or a last segment
\* and comes in order, the body handed on is that of one whole message, and
\* a message out of order is not handed on and resets bev.
C40_DispatchOnWholeMessage ==
    seg_event.outcome # "none" =>
        /\ seg_event.outcome \in {"handled", "ignored"}
              <=> (InOrder(seg_event) /\ seg_event.seg \in {"none", "last"})
        /\ seg_event.outcome = "handled" => seg_event.cmd \in KnownCmds
        /\ seg_event.outcome \in {"handled", "ignored"} => seg_event.body \in WholeBodies
        /\ seg_event.outcome = "stored"
              <=> (InOrder(seg_event) /\ seg_event.seg \in {"first", "mid"})
        /\ seg_event.outcome = "violation" <=> ~InOrder(seg_event)
        /\ seg_event.outcome = "violation" => ~seg_bev
        /\ seg_bev => (expectSeg <=> segBuf # <<>>)

\* A message of three segments was handed to its handler
C40_Witness ==
    /\ seg_event.outcome = "handled"
    /\ seg_event.body = <<"first", "mid", "last">>
    /\ seg_bev

====
